---------------------------- MODULE Spec2Model ----------------------------
(***************************************************************************)
(* A model of the Meridian event pipeline (backend/app): the macro_events  *)
(* store with RSS ingest and the significance scorer, the scheduler and    *)
(* its job wrappers, the transactional ingestors, the RSS batch run, the   *)
(* central-bank statement ingestor and the daily digest cache.             *)
(*                                                                         *)
(* SQL NULL / Python None is the empty sequence Null, a present value v is *)
(* Some(v) == <<v>>.  A Python str that is only tested for truthiness is   *)
(* modelled by a string with "" for None.                                  *)
(***************************************************************************)
EXTENDS Integers, Sequences, FiniteSets, TLC

VARIABLES
    \* ---- macro_events store, RSS insert and scoring pass
    macro_events,     \* committed rows of table macro_events
    scorer,           \* per scoring process: [pc, events] (fetch_events_to_score result)
    ev_ops,           \* number of operations performed (bounds the run)
    \* ---- scheduler process (scheduler/scheduler.py, scheduler/jobs.py)
    sched_phase,      \* "initial": before scheduler.start(); "started": after it
    run_initial,      \* the run_initial argument of run_scheduler
    init_idx,         \* position of _run_initial_jobs in its job list
    main_job,         \* job the main thread is executing ("" when none)
    init_log,         \* what each job call of the initial run did, in order
    job_instances,    \* per job id: runs in progress in the scheduler's worker pool
    last_run,         \* per job id: what the last finished scheduled run did
    missed,           \* job ids with a trigger that was skipped
    sched_ops,        \* number of triggers fired (bounds the run)
    \* ---- the ingestors' tables and one ingestor process
    economic_events,      \* committed rows of economic_events
    daily_prices,         \* committed rows of daily_prices
    central_bank_comms,   \* committed rows of central_bank_comms
    ing,              \* the ingestor process: kind, input, run, unit, position, transaction
    snap_first,       \* the kind's table as the first run left it
    fail_info,        \* what the last failed batch had written, and the table before and after
    \* ---- one call of ingest_sources
    rss,              \* feeds, loop index, fetch attempt, results map, failures, delay, sleeps
    \* ---- runs of ingest_fomc_statements against the Fed site
    fed,              \* site, run number, pages of the run, position, collected entries, failure
    \* ---- the digest service and its concurrent callers
    daily_digests,    \* per digest date, the committed row of daily_digests (or Null)
    world,            \* what the digest's fetches currently find in the store
    digest_call,      \* per caller, the call of get_or_create_digest in progress
    row_built,        \* per digest date, the digest as built by the call that wrote the row
    dig_ops,          \* calls started and data changes so far (bounds the run)
    \* ---- one call of fetch_feed
    fetch,            \* loop position, attempt, responses seen, sleeps made, exception raised
    \* ---- the poll loop of rss_poller.run
    poll,             \* counters, last results, last backoff sleep
    \* ---- the life of the scheduler process: start, hangs, signals, exit
    proc,             \* phase, initial-run position, runs in progress, hung, signal, cut short
    \* ---- runs of the scoring command (significance.py main)
    pass,             \* per scoring process: position in main(), --dry-run, events, log
    passes,           \* number of passes started (bounds the run)
    \* ---- asset discovery
    disc,             \* one call of discover_assets_for_event: its arguments and its result
    \* ---- one call of score_event
    sc,               \* one call of score_event: the event and the ScoredEvent returned
    \* ---- the market-context job
    mc,               \* one run of job_sync_market_context: key levels, regimes, record, upsert, status
    mc_table,         \* committed rows of table market_context
    \* ---- conviction scoring
    conv,             \* one call of calculate_conviction_score: its arguments and its result
    \* ---- crypto_transmission normalisation
    tx,               \* a crypto_transmission payload, normalised once and twice
    \* ---- the economic-calendar adapters
    cal,               \* one call of sync_calendar: adapter, clock, payload, window, events returned
    \* ---- one macro event from ingest through scoring to analysis
    stored_events,     \* rows of macro_events with every column the three writers touch
    analysis_run,      \* per analysis process: position in main(), options, events, summary
    life_log,          \* the last transaction committed and the number of commands started
    \* ---- the poll loop of rss_poller.run over feeds and the store
    feed_store,        \* the (source, item) keys stored in macro_events
    quiet_poll,        \* the poll loop with, per feed, what the last cycle fetched and inserted
    \* ---- two processes running the central-bank ingest
    comms_store,       \* committed rows of central_bank_comms
    comm_run,          \* per ingest process: position in insert_comms, entries, uncommitted rows, counters
    comm_starts       \* calls of insert_comms started (bounds the run)

ev_vars == <<macro_events, scorer, ev_ops>>
sched_vars == <<sched_phase, run_initial, init_idx, main_job, init_log,
                job_instances, last_run, missed, sched_ops>>
tables == <<economic_events, daily_prices, central_bank_comms>>
ing_vars == <<ing, snap_first, fail_info>>
rss_vars == <<rss>>
fed_vars == <<fed>>
dig_vars == <<daily_digests, world, digest_call, row_built, dig_ops>>
fetch_vars == <<fetch>>
poll_vars == <<poll>>
proc_vars == <<proc>>
pass_vars == <<pass, passes>>
disc_vars == <<disc>>
sc_vars == <<sc>>
mc_vars == <<mc, mc_table>>
conv_vars == <<conv>>
tx_vars == <<tx>>
cal_vars == <<cal>>
life_vars == <<stored_events, analysis_run, life_log>>
quiet_vars == <<feed_store, quiet_poll>>
comm_vars == <<comms_store, comm_run, comm_starts>>
vars == <<ev_vars, sched_vars, tables, ing_vars, rss_vars, fed_vars, dig_vars, fetch_vars, poll_vars, proc_vars, pass_vars, disc_vars, sc_vars, mc_vars, conv_vars, tx_vars, cal_vars, life_vars, quiet_vars, comm_vars>>
\* what the actions of one part leave alone: the variables of the other parts
ev_others == <<sched_vars, tables, ing_vars, rss_vars, fed_vars, dig_vars, fetch_vars, poll_vars, proc_vars, pass_vars, disc_vars, sc_vars, mc_vars, conv_vars, tx_vars, cal_vars, life_vars, quiet_vars, comm_vars>>
sched_others == <<ev_vars, tables, ing_vars, rss_vars, fed_vars, dig_vars, fetch_vars, poll_vars, proc_vars, pass_vars, disc_vars, sc_vars, mc_vars, conv_vars, tx_vars, cal_vars, life_vars, quiet_vars, comm_vars>>
ing_others == <<scorer, ev_ops, sched_vars, rss_vars, fed_vars, dig_vars, fetch_vars, poll_vars, proc_vars, pass_vars, disc_vars, sc_vars, mc_vars, conv_vars, tx_vars, cal_vars, life_vars, quiet_vars, comm_vars>>
rss_others == <<scorer, ev_ops, sched_vars, tables, ing_vars, fed_vars, dig_vars, fetch_vars, poll_vars, proc_vars, pass_vars, disc_vars, sc_vars, mc_vars, conv_vars, tx_vars, cal_vars, life_vars, quiet_vars, comm_vars>>
fed_others == <<ev_vars, sched_vars, economic_events, daily_prices, ing_vars, rss_vars, dig_vars, fetch_vars, poll_vars, proc_vars, pass_vars, disc_vars, sc_vars, mc_vars, conv_vars, tx_vars, cal_vars, life_vars, quiet_vars, comm_vars>>
dig_others == <<ev_vars, sched_vars, tables, ing_vars, rss_vars, fed_vars, fetch_vars, poll_vars, proc_vars, pass_vars, disc_vars, sc_vars, mc_vars, conv_vars, tx_vars, cal_vars, life_vars, quiet_vars, comm_vars>>
fetch_others == <<ev_vars, sched_vars, tables, ing_vars, rss_vars, fed_vars, dig_vars, poll_vars, proc_vars, pass_vars, disc_vars, sc_vars, mc_vars, conv_vars, tx_vars, cal_vars, life_vars, quiet_vars, comm_vars>>
poll_others == <<ev_vars, sched_vars, tables, ing_vars, rss_vars, fed_vars, dig_vars, fetch_vars, proc_vars, pass_vars, disc_vars, sc_vars, mc_vars, conv_vars, tx_vars, cal_vars, life_vars, quiet_vars, comm_vars>>
proc_others == <<ev_vars, sched_vars, tables, ing_vars, rss_vars, fed_vars, dig_vars, fetch_vars, poll_vars, pass_vars, disc_vars, sc_vars, mc_vars, conv_vars, tx_vars, cal_vars, life_vars, quiet_vars, comm_vars>>
pass_others == <<scorer, ev_ops, sched_vars, tables, ing_vars, rss_vars, fed_vars, dig_vars, fetch_vars, poll_vars, proc_vars, disc_vars, sc_vars, mc_vars, conv_vars, tx_vars, cal_vars, life_vars, quiet_vars, comm_vars>>
disc_others == <<ev_vars, sched_vars, tables, ing_vars, rss_vars, fed_vars, dig_vars, fetch_vars, poll_vars, proc_vars, pass_vars, sc_vars, mc_vars, conv_vars, tx_vars, cal_vars, life_vars, quiet_vars, comm_vars>>
sc_others == <<ev_vars, sched_vars, tables, ing_vars, rss_vars, fed_vars, dig_vars, fetch_vars, poll_vars, proc_vars, pass_vars, disc_vars, mc_vars, conv_vars, tx_vars, cal_vars, life_vars, quiet_vars, comm_vars>>
mc_others == <<ev_vars, sched_vars, tables, ing_vars, rss_vars, fed_vars, dig_vars, fetch_vars, poll_vars, proc_vars, pass_vars, disc_vars, sc_vars, conv_vars, tx_vars, cal_vars, life_vars, quiet_vars, comm_vars>>
conv_others == <<ev_vars, sched_vars, tables, ing_vars, rss_vars, fed_vars, dig_vars, fetch_vars, poll_vars, proc_vars, pass_vars, disc_vars, sc_vars, mc_vars, tx_vars, cal_vars, life_vars, quiet_vars, comm_vars>>
tx_others == <<ev_vars, sched_vars, tables, ing_vars, rss_vars, fed_vars, dig_vars, fetch_vars, poll_vars, proc_vars, pass_vars, disc_vars, sc_vars, mc_vars, conv_vars, cal_vars, life_vars, quiet_vars, comm_vars>>
cal_others == <<ev_vars, sched_vars, tables, ing_vars, rss_vars, fed_vars, dig_vars, fetch_vars, poll_vars, proc_vars, pass_vars, disc_vars, sc_vars, mc_vars, conv_vars, tx_vars, life_vars, quiet_vars, comm_vars>>
life_others == <<ev_vars, sched_vars, tables, ing_vars, rss_vars, fed_vars, dig_vars, fetch_vars, poll_vars, proc_vars, pass_vars, disc_vars, sc_vars, mc_vars, conv_vars, tx_vars, cal_vars, quiet_vars, comm_vars>>
quiet_others == <<ev_vars, sched_vars, tables, ing_vars, rss_vars, fed_vars, dig_vars, fetch_vars, poll_vars, proc_vars, pass_vars, disc_vars, sc_vars, mc_vars, conv_vars, tx_vars, cal_vars, life_vars, comm_vars>>
comm_others == <<ev_vars, sched_vars, tables, ing_vars, rss_vars, fed_vars, dig_vars, fetch_vars, poll_vars, proc_vars, pass_vars, disc_vars, sc_vars, mc_vars, conv_vars, tx_vars, cal_vars, life_vars, quiet_vars>>

Null == << >>
Some(v) == <<v>>
Min(a, b) == IF a <= b THEN a ELSE b
Max(a, b) == IF a >= b THEN a ELSE b

(***************************************************************************)
(* analysis/significance.py                                                *)
(***************************************************************************)
PRIORITY_THRESHOLD == 65
MONITORING_THRESHOLD == 50
STRUCTURAL_WEIGHT == 35
TRANSMISSION_WEIGHT == 30
HISTORICAL_WEIGHT == 20
ATTENTION_WEIGHT == 15

\* The text of an event (headline + full_text, lower-cased) is modelled by the
\* set of term tables it has at least one term of (_contains_any per table).
TermClasses == {"crisis", "monetary", "geopolitical", "supply", "econ",
                "metal", "macro", "historical", "attention"}

MAJOR_REGIONS == {"US", "EU", "CHINA", "UK", "JAPAN", "GLOBAL"}
MAJOR_ENTITIES == {"federal reserve", "fed", "european central bank", "ecb",
                   "people's bank of china", "pboc", "bank of japan", "boj",
                   "bank of england", "boe", "imf", "opec", "treasury"}

STRUCTURAL_BASE(t) ==
    CASE t = "financial_crisis" -> 90
      [] t = "monetary_policy"  -> 75
      [] t = "geopolitical"     -> 70
      [] t = "economic_data"    -> 55
      [] t = "supply_shock"     -> 80
      [] OTHER                  -> 40

TRANSMISSION_BASE(t) ==
    CASE t = "financial_crisis" -> 80
      [] t = "monetary_policy"  -> 80
      [] t = "geopolitical"     -> 65
      [] t = "economic_data"    -> 55
      [] t = "supply_shock"     -> 75
      [] OTHER                  -> 35

HISTORICAL_BASE(t) ==
    CASE t = "financial_crisis" -> 80
      [] t = "monetary_policy"  -> 65
      [] t = "geopolitical"     -> 60
      [] t = "economic_data"    -> 50
      [] t = "supply_shock"     -> 70
      [] OTHER                  -> 30

SOURCE_ATTENTION_BASE(s) ==
    CASE s = "reuters"     -> 60
      [] s = "ap"          -> 55
      [] s = "google_news" -> 45
      [] OTHER             -> 50

EVENT_TYPE_ALIASES(t) ==
    CASE t \in {"monetary", "central_bank", "rate_decision"} -> "monetary_policy"
      [] t \in {"geopolitics", "sanctions", "war"}           -> "geopolitical"
      [] t \in {"crisis", "banking_crisis"}                  -> "financial_crisis"
      [] t \in {"data", "macro_data"}                        -> "economic_data"
      [] t \in {"supply", "energy"}                          -> "supply_shock"
      [] OTHER                                               -> t

REGION_ALIASES(r) ==
    CASE r \in {"UNITED STATES", "USA", "U.S."} -> "US"
      [] r \in {"EUROPE", "EUROZONE"}           -> "EU"
      [] r = "UNITED KINGDOM"                   -> "UK"
      [] r = "WORLD"                            -> "GLOBAL"
      [] OTHER                                  -> r

_clamp(value) == Max(0, Min(100, value))

\* value: "" for None; the tokens of the model are already stripped and lower-cased
normalize_event_type(value) == IF value = "" THEN "" ELSE EVENT_TYPE_ALIASES(value)

_infer_event_type(text) ==
    IF "crisis" \in text THEN "financial_crisis"
    ELSE IF "monetary" \in text THEN "monetary_policy"
    ELSE IF "geopolitical" \in text THEN "geopolitical"
    ELSE IF "supply" \in text THEN "supply_shock"
    ELSE IF "econ" \in text THEN "economic_data"
    ELSE ""

_normalize_regions(regions) == {REGION_ALIASES(r) : r \in regions \ {""}}
_normalize_entities(entities) == entities \ {""}

_score_structural(event_type, regions, entities) ==
    _clamp(STRUCTURAL_BASE(event_type)
           + Min(25, Cardinality(regions \cap MAJOR_REGIONS) * 8)
           + Min(15, Cardinality(entities \cap MAJOR_ENTITIES) * 5))

_score_transmission(event_type, text, entities) ==
    _clamp(TRANSMISSION_BASE(event_type)
           + (IF "metal" \in text THEN 20 ELSE 0)
           + (IF "macro" \in text THEN 10 ELSE 0)
           + (IF "supply" \in text THEN 10 ELSE 0)
           + (IF entities \cap MAJOR_ENTITIES # {} THEN 5 ELSE 0))

_score_historical(event_type, text, regions) ==
    _clamp(HISTORICAL_BASE(event_type)
           + (IF "historical" \in text THEN 10 ELSE 0)
           + (IF regions \cap MAJOR_REGIONS # {}
              THEN Min(10, Cardinality(regions \cap MAJOR_REGIONS) * 5) ELSE 0))

_score_attention(source, text, regions, entities) ==
    _clamp(SOURCE_ATTENTION_BASE(source)
           + (IF "attention" \in text THEN 15 ELSE 0)
           + (IF Cardinality(regions \cap MAJOR_REGIONS) >= 2 THEN 5 ELSE 0)
           + (IF Cardinality(entities \cap MAJOR_ENTITIES) >= 2 THEN 5 ELSE 0))

_weighted_total_truncated(c) ==
    _clamp((c.structural * STRUCTURAL_WEIGHT + c.transmission * TRANSMISSION_WEIGHT
            + c.historical * HISTORICAL_WEIGHT + c.attention * ATTENTION_WEIGHT) \div 100)

\* total = (raw + 50) // 100, clamped
_weighted_total(c) ==
    _clamp((c.structural * STRUCTURAL_WEIGHT + c.transmission * TRANSMISSION_WEIGHT
            + c.historical * HISTORICAL_WEIGHT + c.attention * ATTENTION_WEIGHT
            + 50) \div 100)

classify_score(score) ==
    IF score >= PRIORITY_THRESHOLD THEN "priority"
    ELSE IF score >= MONITORING_THRESHOLD THEN "monitoring"
    ELSE "logged"

PriorityFlagStrict(total_score) == total_score > PRIORITY_THRESHOLD

\* score_event line 183: priority_flag = total_score >= PRIORITY_THRESHOLD
PriorityFlag(total_score) == total_score >= PRIORITY_THRESHOLD

\* event: [source, text, event_type, regions, entities]
score_event(event) ==
    LET nt == normalize_event_type(event.event_type)
        event_type == IF nt # "" THEN nt ELSE _infer_event_type(event.text)
        regions == _normalize_regions(event.regions)
        entities == _normalize_entities(event.entities)
        components ==
            [structural   |-> _score_structural(event_type, regions, entities),
             transmission |-> _score_transmission(event_type, event.text, entities),
             historical   |-> _score_historical(event_type, event.text, regions),
             attention    |-> _score_attention(event.source, event.text, regions, entities)]
        total_score == _weighted_total(components)
    IN  [total_score   |-> total_score,
         components    |-> components,
         priority_flag |-> PriorityFlag(total_score),
         tier          |-> classify_score(total_score)]

(***************************************************************************)
(* analysis/market_context.py: the regime classifiers, the position-sizing *)
(* multiplier, and one run of the market-context job (scheduler/jobs.py    *)
(* job_sync_market_context -> ingest_market_context -> upsert).  Levels,   *)
(* thresholds and multipliers are in hundredths: VIX 22.5 is 2250, a       *)
(* 2s10s spread of 0.25 is 25, an HY spread of 300 bp is 30000, the        *)
(* multiplier 0.75 is 75.                                                  *)
(***************************************************************************)
\* float("-inf")
NEG_INF == -1000000

VOLATILITY_REGIME_THRESHOLDS ==
    [crisis |-> 4000, fear |-> 3000, elevated |-> 2000, normal |-> 1500, calm |-> 0]
CURVE_REGIME_THRESHOLDS ==
    [steep |-> 100, normal |-> 25, flat |-> 0, inverted |-> NEG_INF]
CREDIT_REGIME_THRESHOLDS ==
    [crisis |-> 80000, stressed |-> 50000, wide |-> 40000, normal |-> 30000, tight |-> 0]
POSITION_SIZE_MULTIPLIERS ==
    [volatility |-> [crisis |-> 25, fear |-> 50, elevated |-> 75, normal |-> 100, calm |-> 100],
     credit     |-> [crisis |-> 25, stressed |-> 50, wide |-> 75, normal |-> 100, tight |-> 100]]

AtLeastStrict(level, threshold) == level > threshold

\* `if level >= threshold`
AtLeast(level, threshold) == level >= threshold

\* `for regime in order: if level >= thresholds[regime]: return regime`, then
\* the return after the loop
RECURSIVE FirstRegime(_, _, _, _)
FirstRegime(order, thresholds, level, fallthrough) ==
    IF order = << >> THEN fallthrough
    ELSE IF AtLeast(level, thresholds[Head(order)]) THEN Head(order)
    ELSE FirstRegime(Tail(order), thresholds, level, fallthrough)

classify_volatility_regime(vix_level) ==
    IF vix_level = Null THEN "unknown"
    ELSE FirstRegime(<<"crisis", "fear", "elevated", "normal", "calm">>,
                     VOLATILITY_REGIME_THRESHOLDS, vix_level[1], "calm")

classify_dollar_regime(dxy_level) ==
    IF dxy_level = Null THEN "unknown"
    ELSE IF dxy_level[1] >= 10500 THEN "strong"
    ELSE IF dxy_level[1] <= 9500 THEN "weak"
    ELSE "neutral"

classify_curve_regime(spread_2s10s) ==
    IF spread_2s10s = Null THEN "unknown"
    ELSE FirstRegime(<<"steep", "normal", "flat", "inverted">>,
                     CURVE_REGIME_THRESHOLDS, spread_2s10s[1], "inverted")

classify_credit_regime(hy_spread) ==
    IF hy_spread = Null THEN "unknown"
    ELSE FirstRegime(<<"crisis", "stressed", "wide", "normal", "tight">>,
                     CREDIT_REGIME_THRESHOLDS, hy_spread[1], "tight")

classify_regimes(key_levels) ==
    [volatility_regime |-> classify_volatility_regime(key_levels.vix_level),
     dollar_regime     |-> classify_dollar_regime(key_levels.dxy_level),
     curve_regime      |-> classify_curve_regime(key_levels.spread_2s10s),
     credit_regime     |-> classify_credit_regime(key_levels.hy_spread)]

\* dict.get(key, 1.0)
GetOrOne(table, key) == IF key \in DOMAIN table THEN table[key] ELSE 100

calculate_position_multiplier_max(regimes) ==
    Max(GetOrOne(POSITION_SIZE_MULTIPLIERS.volatility, regimes.volatility_regime),
        GetOrOne(POSITION_SIZE_MULTIPLIERS.credit, regimes.credit_regime))

calculate_position_multiplier(regimes) ==
    Min(GetOrOne(POSITION_SIZE_MULTIPLIERS.volatility, regimes.volatility_regime),
        GetOrOne(POSITION_SIZE_MULTIPLIERS.credit, regimes.credit_regime))

\* the columns of table market_context (migration 20260201220000) that the
\* statement of upsert_market_context could name, and the columns it names
MarketContextColumns ==
    {"id", "context_date", "volatility_regime", "dollar_regime", "curve_regime",
     "credit_regime", "vix_level", "dxy_level", "us10y_level", "us2y_level",
     "gold_level", "oil_level", "spx_level", "btc_level", "curve_2s10s", "hy_spread",
     "gold_silver_ratio", "copper_gold_ratio", "vix_term_structure", "spy_rsp_ratio",
     "suggested_size_multiplier", "raw_prices", "raw_fred", "created_at", "updated_at"}
UpsertColumns ==
    {"id", "context_date", "volatility_regime", "dollar_regime", "curve_regime",
     "credit_regime", "vix_level", "dxy_level", "us10y_level", "us2y_level",
     "gold_level", "oil_level", "spx_level", "btc_level", "spread_2s10s", "hy_spread",
     "gold_silver_ratio", "copper_gold_ratio", "vix_term_structure", "spy_rsp_ratio",
     "suggested_size_multiplier", "raw_prices", "raw_fred", "created_at"}

\* the key levels a snapshot can hold: None when the fetch of the instrument
\* failed, else a value at, just below or between the thresholds
VixLevels == {Null} \cup {Some(v) : v \in {0, 1499, 1500, 1999, 2000, 2250, 2999, 3000, 3999, 4000, 5500}}
DxyLevels == {Null} \cup {Some(v) : v \in {9500, 10200, 10500}}
SpreadLevels == {Null} \cup {Some(v) : v \in {-50, -1, 0, 24, 25, 50, 99, 100}}
HySpreadLevels == {Null} \cup {Some(v) : v \in {0, 29999, 30000, 35000, 39999, 40000, 49999, 50000, 79999, 80000}}
\* psycopg.connect / conn.execute: the database answers, or the call raises
Databases == {"up", "down"}
SnapshotDate == 1

NoRegimes ==
    [volatility_regime |-> "", dollar_regime |-> "", curve_regime |-> "", credit_regime |-> ""]

MarketIdle ==
    /\ mc = [pc |-> "idle",
             key_levels |-> [vix_level |-> Null, dxy_level |-> Null, spread_2s10s |-> Null,
                             hy_spread |-> Null],
             database |-> "up", regimes |-> NoRegimes, record |-> Null, upserted |-> Null,
             status |-> ""]
    /\ mc_table = {}

\* job_sync_market_context is called; fetch_market_snapshot returns a snapshot
MarketInit ==
    /\ \E vix \in VixLevels, dxy \in DxyLevels, spread \in SpreadLevels, hy \in HySpreadLevels,
          database \in Databases :
          mc = [pc |-> "snapshot",
                key_levels |-> [vix_level |-> vix, dxy_level |-> dxy, spread_2s10s |-> spread,
                                hy_spread |-> hy],
                database |-> database, regimes |-> NoRegimes, record |-> Null,
                upserted |-> Null, status |-> ""]
    /\ mc_table = {}

\* regimes = classify_regimes(snapshot)
ClassifyRegimes ==
    /\ mc.pc = "snapshot"
    /\ mc' = [mc EXCEPT !.pc = "classified", !.regimes = classify_regimes(mc.key_levels)]
    /\ UNCHANGED <<mc_table, mc_others>>

\* record = build_market_context_record(snapshot, regimes)
BuildMarketContextRecord ==
    /\ mc.pc = "classified"
    /\ mc' = [mc EXCEPT !.pc = "built",
                        !.record = Some([context_date |-> SnapshotDate,
                                         regimes |-> mc.regimes,
                                         key_levels |-> mc.key_levels,
                                         suggested_size_multiplier |->
                                             calculate_position_multiplier(mc.regimes)])]
    /\ UNCHANGED <<mc_table, mc_others>>

\* the INSERT .. ON CONFLICT (context_date) DO UPDATE of upsert_market_context
\* raises when the database does not answer or the statement names a column
\* the table does not have
UpsertRaises == mc.database = "down" \/ ~(UpsertColumns \subseteq MarketContextColumns)

\* upsert_market_context(record): True after the commit, False from its
\* `except Exception`
UpsertMarketContext ==
    /\ mc.pc = "built"
    /\ IF UpsertRaises
       THEN /\ mc' = [mc EXCEPT !.pc = "upserted", !.upserted = Some(FALSE)]
            /\ UNCHANGED mc_table
       ELSE /\ mc' = [mc EXCEPT !.pc = "upserted", !.upserted = Some(TRUE)]
            /\ mc_table' =
                   {r \in mc_table : r.context_date # mc.record[1].context_date}
                   \cup {mc.record[1]}
    /\ UNCHANGED mc_others

\* ingest_market_context returns the record or None, and the job returns
\* {"status": "success", "context_date": ...}; nothing between `try` and
\* `return` raises, so its `except Exception` branch is never taken
MarketJobReturns ==
    /\ mc.pc = "upserted"
    /\ LET result == IF mc.upserted = Some(TRUE) THEN mc.record ELSE Null
       IN  mc' = [mc EXCEPT !.pc = "done", !.status = "success",
                            !.record = result]
    /\ UNCHANGED <<mc_table, mc_others>>

MarketNext ==
    \/ ClassifyRegimes
    \/ BuildMarketContextRecord
    \/ UpsertMarketContext
    \/ MarketJobReturns

(***************************************************************************)

(* analysis/conviction.py calculate_conviction_score.  A dict argument is  *)
(* a record of optional values (Null: key absent); the historical cases    *)
(* are the sequence of their significance_score values (Null: none).       *)
(***************************************************************************)
COMPONENT_CONFIG ==
    [historical_precedent   |-> [max_score |-> 25, weight |-> 1],
     quantitative_magnitude |-> [max_score |-> 25, weight |-> 1],
     channel_clarity        |-> [max_score |-> 20, weight |-> 1],
     timing_catalyst        |-> [max_score |-> 15, weight |-> 1],
     counter_case_discount  |-> [max_score |-> 15, weight |-> -1]]
CONVICTION_THRESHOLDS == [HIGH |-> 70, MEDIUM |-> 50, LOW |-> 30, INSUFFICIENT |-> 0]

\* str.lower() on the labels a caller passes
str_lower(s) ==
    CASE s = "High" -> "high"
      [] s = "Medium" -> "medium"
      [] s = "STRONG" -> "strong"
      [] OTHER -> s

\* ConvictionComponent.weighted_score
weighted_score(c) == Min(c.raw_score * c.weight, c.max_score)

RECURSIVE SumSeq(_)
SumSeq(s) == IF s = << >> THEN 0 ELSE Head(s) + SumSeq(Tail(s))

_score_historical_precedent(cases) ==
    LET max_score == COMPONENT_CONFIG.historical_precedent.max_score
        case_count == Len(cases)
        base_score == IF case_count = 1 THEN 10 ELSE IF case_count = 2 THEN 15 ELSE 20
        \* c.get("significance_score", 0) for c in cases if c.get("significance_score")
        significance_scores ==
            SelectSeq([i \in 1..Len(cases) |-> IF cases[i] = Null THEN 0 ELSE cases[i][1]],
                      LAMBDA x : x # 0)
        \* avg_significance > 80, the average being sum / len
        above_80 == /\ significance_scores # << >>
                    /\ SumSeq(significance_scores) > 80 * Len(significance_scores)
        bonus == IF above_80 THEN 5 ELSE 0
    IN  IF cases = << >>
        THEN [raw_score |-> 0, max_score |-> max_score, weight |-> 1]
        ELSE [raw_score |-> Min(base_score + bonus, max_score), max_score |-> max_score,
              weight |-> 1]

\* impacts.get(key, default)
ImpactGet(value, default) == IF value = Null THEN default ELSE value[1]

_score_quantitative_magnitude(impacts) ==
    LET max_score == COMPONENT_CONFIG.quantitative_magnitude.max_score
        prod_drop == ImpactGet(impacts.production_drop_pct, 0)
        price_impact == ImpactGet(impacts.price_impact_pct,
                                  ImpactGet(impacts.peak_price_impact_pct, 0))
        global_impact == ImpactGet(impacts.global_supply_impact_pct, 0)
        prod_score == IF prod_drop >= 90 THEN 10 ELSE IF prod_drop >= 50 THEN 7
                      ELSE IF prod_drop >= 20 THEN 4 ELSE IF prod_drop > 0 THEN 2 ELSE 0
        price_score == IF price_impact >= 100 THEN 10 ELSE IF price_impact >= 50 THEN 7
                       ELSE IF price_impact >= 20 THEN 4 ELSE IF price_impact > 0 THEN 2 ELSE 0
        global_score == IF global_impact >= 5 THEN 5 ELSE IF global_impact >= 2 THEN 3
                        ELSE IF global_impact > 0 THEN 1 ELSE 0
    IN  \* `if not impacts`: the empty dict
        IF \A k \in DOMAIN impacts : impacts[k] = Null
        THEN [raw_score |-> 0, max_score |-> max_score, weight |-> 1]
        ELSE [raw_score |-> Min(prod_score + price_score + global_score, max_score),
              max_score |-> max_score, weight |-> 1]

_score_channel_clarity(channels) ==
    LET max_score == COMPONENT_CONFIG.channel_clarity.max_score
        channel_count == Len(channels)
        raw_score == IF channel_count = 1 THEN 10 ELSE IF channel_count = 2 THEN 15 ELSE 20
    IN  IF channels = << >>
        THEN [raw_score |-> 0, max_score |-> max_score, weight |-> 1]
        ELSE [raw_score |-> Min(raw_score, max_score), max_score |-> max_score, weight |-> 1]

_score_timing_catalyst(clarity) ==
    LET clarity_lower == str_lower(clarity)
    IN  [raw_score |-> CASE clarity_lower = "high" -> 15
                         [] clarity_lower = "medium" -> 10
                         [] clarity_lower = "low" -> 5
                         [] OTHER -> 0,
         max_score |-> COMPONENT_CONFIG.timing_catalyst.max_score, weight |-> 1]

_score_counter_case(strength) ==
    LET strength_lower == str_lower(strength)
    IN  [raw_score |-> CASE strength_lower = "strong" -> 15
                         [] strength_lower = "moderate" -> 10
                         [] strength_lower = "weak" -> 5
                         [] OTHER -> 0,
         max_score |-> COMPONENT_CONFIG.counter_case_discount.max_score, weight |-> -1]

_classify_conviction_level_strict(score) ==
    IF score > CONVICTION_THRESHOLDS.HIGH THEN "HIGH"
    ELSE IF score > CONVICTION_THRESHOLDS.MEDIUM THEN "MEDIUM"
    ELSE IF score > CONVICTION_THRESHOLDS.LOW THEN "LOW"
    ELSE "INSUFFICIENT"

_classify_conviction_level(score) ==
    IF score >= CONVICTION_THRESHOLDS.HIGH THEN "HIGH"
    ELSE IF score >= CONVICTION_THRESHOLDS.MEDIUM THEN "MEDIUM"
    ELSE IF score >= CONVICTION_THRESHOLDS.LOW THEN "LOW"
    ELSE "INSUFFICIENT"

calculate_conviction_score(args) ==
    LET components == <<_score_historical_precedent(args.historical_cases),
                        _score_quantitative_magnitude(args.quantitative_impacts),
                        _score_channel_clarity(args.matched_channels),
                        _score_timing_catalyst(args.catalyst_clarity),
                        _score_counter_case(args.counter_case_strength)>>
        sum == SumSeq([i \in 1..5 |-> weighted_score(components[i])])
        total == Max(0, Min(100, sum))
    IN  [total_score |-> total,
         level |-> _classify_conviction_level(total),
         components |-> components,
         unclamped |-> sum]

\* the arguments a caller can pass
CaseSignificances == {Null, Some(70), Some(90)}
HistoricalCases ==
    {<< >>} \cup UNION {[1..n -> CaseSignificances] : n \in 1..3}
QuantitativeImpacts ==
    [production_drop_pct : {Null, Some(1), Some(50), Some(90)},
     price_impact_pct : {Null, Some(20), Some(100)},
     peak_price_impact_pct : {Null, Some(50)},
     global_supply_impact_pct : {Null, Some(1), Some(5)}]
MatchedChannels ==
    {<< >>, <<"fed_hawkish">>, <<"fed_hawkish", "dollar_strength">>,
     <<"fed_hawkish", "dollar_strength", "inflation_spike">>}
CatalystClarities == {"High", "medium", "low", "none"}
CounterCaseStrengths == {"STRONG", "moderate", "weak", "none"}

NoConvictionArgs ==
    [historical_cases |-> << >>,
     quantitative_impacts |-> [production_drop_pct |-> Null, price_impact_pct |-> Null,
                               peak_price_impact_pct |-> Null,
                               global_supply_impact_pct |-> Null],
     matched_channels |-> << >>, catalyst_clarity |-> "", counter_case_strength |-> ""]

ConvictionIdle == conv = [args |-> NoConvictionArgs, result |-> Null]

ConvictionInit ==
    \E cases \in HistoricalCases, impacts \in QuantitativeImpacts,
       channels \in MatchedChannels, clarity \in CatalystClarities,
       strength \in CounterCaseStrengths :
        conv = [args |-> [historical_cases |-> cases, quantitative_impacts |-> impacts,
                          matched_channels |-> channels, catalyst_clarity |-> clarity,
                          counter_case_strength |-> strength],
                result |-> Null]

\* result = calculate_conviction_score(...)
CalculateConvictionScore ==
    /\ conv.result = Null
    /\ conv' = [conv EXCEPT !.result = Some(calculate_conviction_score(conv.args))]
    /\ UNCHANGED conv_others

ConvictionNext ==
    \/ CalculateConvictionScore

(***************************************************************************)

(* analysis/transmission.py normalize_crypto_transmission.  A Python value *)
(* is a record [type, text, items]: text holds the atoms of a str, an atom *)
(* being a word of letters and digits, one blank " " or one comma ",";     *)
(* items holds the items of a list, each a record [type, text].            *)
(***************************************************************************)
PyNone == [type |-> "NoneType", text |-> << >>, items |-> << >>]
PyInt == [type |-> "int", text |-> << >>, items |-> << >>]
PyStr(atoms) == [type |-> "str", text |-> atoms, items |-> << >>]
PyList(items) == [type |-> "list", text |-> << >>, items |-> items]
ItemStr(atoms) == [type |-> "str", text |-> atoms]
ItemInt == [type |-> "int", text |-> << >>]

\* str.lower() of one word
LowerWord(w) ==
    CASE w = "Bitcoin" -> "bitcoin"
      [] w = "BTC" -> "btc"
      [] w = "ETH" -> "eth"
      [] w = "SOL" -> "sol"
      [] w = "USDT" -> "usdt"
      [] w = "USDC" -> "usdc"
      [] w = "Doge" -> "doge"
      [] w = "Strong" -> "strong"
      [] w = "HIGH" -> "high"
      [] OTHER -> w
text_lower(s) == [i \in 1..Len(s) |-> LowerWord(s[i])]

RECURSIVE lstrip(_)
lstrip(s) == IF s # << >> /\ Head(s) = " " THEN lstrip(Tail(s)) ELSE s
RECURSIVE rstrip(_)
rstrip(s) == IF s # << >> /\ s[Len(s)] = " " THEN rstrip(SubSeq(s, 1, Len(s) - 1)) ELSE s
\* str.strip()
text_strip(s) == rstrip(lstrip(s))

\* str.split(","): the pieces between the commas
RECURSIVE text_split(_, _)
text_split(s, piece) ==
    IF s = << >> THEN <<piece>>
    ELSE IF Head(s) = "," THEN <<piece>> \o text_split(Tail(s), << >>)
    ELSE text_split(Tail(s), Append(piece, Head(s)))

\* TOKEN_RE.findall(text): the maximal runs of [a-z0-9]
findall_tokens(s) == SelectSeq(s, LAMBDA a : a \notin {" ", ","})

ALLOWED_STRENGTHS == {<<"strong">>, <<"moderate">>, <<"weak">>, <<"none">>}
\* STRENGTH_ALIASES.get(key)
STRENGTH_ALIASES(key) ==
    CASE key = <<"high">> -> Some(<<"strong">>)
      [] key = <<"medium">> -> Some(<<"moderate">>)
      [] key = <<"low">> -> Some(<<"weak">>)
      [] key = <<"unknown">> -> Some(<<"none">>)
      [] OTHER -> Null

\* an alias table in which "bitcoin" leads to another key of the table
CRYPTO_ASSET_ALIASES_CHAINED(key) ==
    CASE key = <<"bitcoin">> -> Some(<<"btc">>)
      [] key = <<"btc">> -> Some(<<"BTC">>)
      [] key \in {<<"ethereum">>, <<"eth">>} -> Some(<<"ETH">>)
      [] key \in {<<"solana">>, <<"sol">>} -> Some(<<"SOL">>)
      [] key \in {<<"stablecoin">>, <<"stablecoins">>} -> Some(<<"stablecoins">>)
      [] key \in {<<"usdt">>, <<"tether">>} -> Some(<<"USDT">>)
      [] key = <<"usdc">> -> Some(<<"USDC">>)
      [] OTHER -> Null

\* CRYPTO_ASSET_ALIASES.get(key)
CRYPTO_ASSET_ALIASES(key) ==
    CASE key \in {<<"bitcoin">>, <<"btc">>} -> Some(<<"BTC">>)
      [] key \in {<<"ethereum">>, <<"eth">>} -> Some(<<"ETH">>)
      [] key \in {<<"solana">>, <<"sol">>} -> Some(<<"SOL">>)
      [] key \in {<<"stablecoin">>, <<"stablecoins">>} -> Some(<<"stablecoins">>)
      [] key \in {<<"usdt">>, <<"tether">>} -> Some(<<"USDT">>)
      [] key = <<"usdc">> -> Some(<<"USDC">>)
      [] OTHER -> Null

_normalize_strength(value) ==
    IF value.type = "str"
    THEN LET normalized == text_lower(text_strip(value.text))
         IN  IF normalized \in ALLOWED_STRENGTHS THEN normalized
             ELSE IF STRENGTH_ALIASES(normalized) # Null THEN STRENGTH_ALIASES(normalized)[1]
             ELSE <<"none">>
    ELSE <<"none">>

_normalize_asset(value) ==
    LET normalized == text_lower(text_strip(value))
    IN  IF CRYPTO_ASSET_ALIASES(normalized) # Null THEN CRYPTO_ASSET_ALIASES(normalized)[1]
        ELSE text_strip(value)

\* the loop over `seen`: the first occurrence of each element, in order
RECURSIVE Dedupe(_, _)
Dedupe(items, seen) ==
    IF items = << >> THEN << >>
    ELSE IF Head(items) \in seen THEN Dedupe(Tail(items), seen)
    ELSE <<Head(items)>> \o Dedupe(Tail(items), seen \cup {Head(items)})

normalize_relevant_assets(value) ==
    LET stripped(strs) == SelectSeq([i \in 1..Len(strs) |-> text_strip(strs[i])],
                                    LAMBDA s : s # << >>)
        strs_of_list == LET kept == SelectSeq(value.items, LAMBDA item : item.type = "str")
                        IN  [i \in 1..Len(kept) |-> kept[i].text]
        assets == IF value.type = "str" THEN stripped(text_split(value.text, << >>))
                  ELSE IF value.type = "list" THEN stripped(strs_of_list)
                  ELSE << >>
    IN  Dedupe([i \in 1..Len(assets) |-> _normalize_asset(assets[i])], {})

extract_relevant_assets(text) ==
    LET tokens == findall_tokens(text_lower(text))
        known == SelectSeq(tokens, LAMBDA token : CRYPTO_ASSET_ALIASES(<<token>>) # Null)
    IN  Dedupe([i \in 1..Len(known) |-> _normalize_asset(<<known[i]>>)], {})

\* bool(value) of a str, list, int or None argument
Truthy(value) ==
    CASE value.type = "str" -> value.text # << >>
      [] value.type = "list" -> value.items # << >>
      [] value.type = "int" -> TRUE
      [] OTHER -> FALSE

normalize_crypto_transmission(payload) ==
    LET data == IF payload.is_dict THEN payload
                ELSE [is_dict |-> TRUE, exists |-> "None", path |-> PyNone, strength |-> PyNone,
                      relevant_assets |-> PyNone, assets |-> PyNone]
        normalized_exists == data.exists = "True"
        normalized_path == IF data.path.type = "str" THEN text_strip(data.path.text) ELSE << >>
        normalized_strength == _normalize_strength(data.strength)
        given == IF Truthy(data.relevant_assets) THEN data.relevant_assets
                 ELSE IF Truthy(data.assets) THEN data.assets
                 ELSE PyList(<< >>)
        assets == normalize_relevant_assets(given)
    IN  [exists |-> IF normalized_exists THEN "True" ELSE "False",
         path |-> normalized_path,
         strength |-> normalized_strength,
         relevant_assets |-> IF normalized_exists /\ assets = << >>
                             THEN extract_relevant_assets(normalized_path)
                             ELSE assets]

\* the dict normalize_crypto_transmission returned, passed as a payload
AsPayload(d) ==
    [is_dict |-> TRUE, exists |-> d.exists, path |-> PyStr(d.path), strength |-> PyStr(d.strength),
     relevant_assets |-> PyList([i \in 1..Len(d.relevant_assets) |-> ItemStr(d.relevant_assets[i])]),
     assets |-> PyNone]

\* the payloads a model response can hold
PayloadExists == {"True", "False", "None", "str"}
PayloadPaths ==
    {PyNone, PyStr(<< >>), PyStr(<<" ">>), PyStr(<<" ", "Bitcoin", " ", "and", " ", "ETH", " ", "rally", " ">>),
     PyStr(<<"rates", " ", "rise">>), PyStr(<<"btc", ",", "btc", " ", "tether">>)}
PayloadStrengths ==
    {PyNone, PyInt, PyStr(<<"strong">>), PyStr(<<" ", "Strong", " ">>), PyStr(<<"HIGH">>),
     PyStr(<<"medium">>), PyStr(<<"unknown">>), PyStr(<<"severe">>)}
PayloadRelevantAssets ==
    {PyNone, PyInt, PyStr(<< >>), PyStr(<<" ">>), PyList(<< >>),
     PyStr(<<"bitcoin", ",", " ", "ETH", ",", " ", ",", "btc", ",", "Doge">>),
     PyList(<<ItemStr(<<" ", "Bitcoin", " ">>), ItemStr(<<"BTC">>), ItemInt, ItemStr(<<" ">>),
              ItemStr(<<"Doge">>), ItemStr(<<"doge">>)>>),
     PyList(<<ItemStr(<<"tether">>), ItemStr(<<"USDT">>), ItemStr(<<"stablecoin">>)>>),
     PyList(<<ItemStr(<<"wrapped", " ", "btc">>), ItemStr(<<"btc", ",", "eth">>)>>)}
PayloadAssets == {PyNone, PyStr(<<"sol">>), PyList(<<ItemStr(<<"usdc">>)>>)}

NotADict ==
    [is_dict |-> FALSE, exists |-> "None", path |-> PyNone, strength |-> PyNone,
     relevant_assets |-> PyNone, assets |-> PyNone]

TransmissionIdle == tx = [payload |-> NotADict, once |-> Null, twice |-> Null]

TransmissionInit ==
    \/ tx = [payload |-> NotADict, once |-> Null, twice |-> Null]
    \/ \E exists \in PayloadExists, path \in PayloadPaths, strength \in PayloadStrengths,
          relevant_assets \in PayloadRelevantAssets, assets \in PayloadAssets :
          tx = [payload |-> [is_dict |-> TRUE, exists |-> exists, path |-> path,
                             strength |-> strength, relevant_assets |-> relevant_assets,
                             assets |-> assets],
                once |-> Null, twice |-> Null]

\* once = normalize_crypto_transmission(payload)
NormalizeTransmission ==
    /\ tx.once = Null
    /\ tx' = [tx EXCEPT !.once = Some(normalize_crypto_transmission(tx.payload))]
    /\ UNCHANGED tx_others

\* twice = normalize_crypto_transmission(once)
NormalizeAgain ==
    /\ tx.once # Null /\ tx.twice = Null
    /\ tx' = [tx EXCEPT !.twice = Some(normalize_crypto_transmission(AsPayload(tx.once[1])))]
    /\ UNCHANGED tx_others

TransmissionNext ==
    \/ NormalizeTransmission
    \/ NormalizeAgain

(***************************************************************************)

(* ingestion/economic_calendar.py: build_window and the three adapters'    *)
(* fetch_events.  Times are whole hours since an epoch midnight UTC; an    *)
(* entry's date string is its local hour and its UTC offset, or Null when  *)
(* datetime.fromisoformat rejects it.                                      *)
(***************************************************************************)
HoursPerDay == 24
IMPACT_LEVELS == {"high", "medium", "low"}

\* .astimezone(timezone.utc)
parse_event_datetime(date) == date.local - date.utc_offset

normalize_impact_level(value) ==
    CASE value \in {"med", "medium"} -> "medium"
      [] value \in {"hi", "high"} -> "high"
      [] value \in {"lo", "low"} -> "low"
      [] OTHER -> ""

\* parse_calendar_payload / parse_forex_factory_payload: an entry whose date
\* or impact raises ValueError is skipped; the release-dates entries carry
\* no impact (the catalogue supplies it) and are skipped on a bad date
ParseEntries(adapter, payload) ==
    LET ok(entry) == /\ entry.date # Null
                     /\ adapter = "fred" \/ normalize_impact_level(entry.impact) \in IMPACT_LEVELS
        kept == SelectSeq(payload, ok)
    IN  [i \in 1..Len(kept) |->
            [event_name |-> kept[i].event_name,
             event_date |-> parse_event_datetime(kept[i].date[1])]]

build_window(days, current) ==
    LET start == (current \div HoursPerDay) * HoursPerDay
    IN  [start |-> start, end |-> start + days * HoursPerDay]

filter_events_closed(events, start, end) ==
    SelectSeq(events, LAMBDA event : start <= event.event_date /\ event.event_date <= end)

filter_events(events, start, end) ==
    SelectSeq(events, LAMBDA event : start <= event.event_date /\ event.event_date < end)

\* adapter.fetch_events(start, end)
fetch_events(c, start, end) ==
    LET events == ParseEntries(c.adapter, c.payload)
        future_events == SelectSeq(events, LAMBDA e : e.event_date >= c.fetch_now)
    IN  IF c.adapter = "forex_factory" /\ c.future_only /\ ~c.data_file
        THEN filter_events(future_events, start, end)
        ELSE filter_events(events, start, end)

CalendarAdapters == {"json", "forex_factory", "fred"}
CalendarDays == {1, 2}
\* sync_calendar runs at midnight or two hours into day 2
CalendarNows == {48, 50}
EntryDates ==
    {Null} \cup {Some([local |-> l, utc_offset |-> o]) :
                    l \in {48, 49, 50, 72, 73, 96}, o \in {0, 1}}
CalendarEntries ==
    {[event_name |-> "CPI", date |-> d, impact |-> "high"] : d \in EntryDates}
    \cup {[event_name |-> "CPI", date |-> Some([local |-> 50, utc_offset |-> 0]), impact |-> i] :
             i \in {"med", "none"}}
MaxEntries == 2
CalendarPayloads == UNION {[1..n -> CalendarEntries] : n \in 0..MaxEntries}

CalendarIdle ==
    cal = [pc |-> "idle", adapter |-> "json", data_file |-> FALSE, future_only |-> TRUE,
           days |-> 1, now |-> 48, fetch_now |-> 48, payload |-> << >>,
           window |-> [start |-> 0, end |-> 0], events |-> << >>]

\* sync_calendar(adapter, days) is called
CalendarInit ==
    \E adapter \in CalendarAdapters, data_file \in BOOLEAN, future_only \in BOOLEAN,
       days \in CalendarDays, now \in CalendarNows, later \in {0, 1},
       payload \in CalendarPayloads :
        /\ adapter # "forex_factory" => future_only
        /\ adapter = "json" => data_file
        /\ cal = [pc |-> "called", adapter |-> adapter, data_file |-> data_file,
                  future_only |-> future_only, days |-> days, now |-> now,
                  fetch_now |-> now + later, payload |-> payload,
                  window |-> [start |-> 0, end |-> 0], events |-> << >>]

\* start, end = build_window(days)
BuildWindow ==
    /\ cal.pc = "called"
    /\ cal' = [cal EXCEPT !.pc = "window", !.window = build_window(cal.days, cal.now)]
    /\ UNCHANGED cal_others

\* events = adapter.fetch_events(start, end)
FetchEvents ==
    /\ cal.pc = "window"
    /\ cal' = [cal EXCEPT !.pc = "fetched",
                          !.events = fetch_events(cal, cal.window.start, cal.window.end)]
    /\ UNCHANGED cal_others

CalendarNext ==
    \/ BuildWindow
    \/ FetchEvents

(***************************************************************************)

(* analysis/significance.py score_event as a function of its argument:     *)
(* the events a caller can pass, and the ScoredEvent each of them gets.    *)
(***************************************************************************)
ScoreSources == {"reuters", "ap", "google_news", "blog"}
ScoreTexts == SUBSET {"crisis", "monetary", "metal", "macro", "supply", "historical"}
ScoreEventTypes == {"", "monetary_policy", "crisis", "earnings"}
ScoreRegions == SUBSET {"US", "EUROPE", "CHINA", "UK"}
ScoreEntities == SUBSET {"federal reserve", "ecb", "imf"}

ScoreIdle ==
    sc = [event |-> [source |-> "", text |-> {}, event_type |-> "", regions |-> {},
                     entities |-> {}],
          scored |-> Null]

\* a MacroEvent is built
ScoreInit ==
    \E source \in ScoreSources, text \in ScoreTexts, event_type \in ScoreEventTypes,
       regions \in ScoreRegions, entities \in ScoreEntities :
        sc = [event |-> [source |-> source, text |-> text, event_type |-> event_type,
                         regions |-> regions, entities |-> entities],
              scored |-> Null]

\* scored = score_event(event)
ScoreEvent ==
    /\ sc.scored = Null
    /\ sc' = [sc EXCEPT !.scored = Some(score_event(sc.event))]
    /\ UNCHANGED sc_others

ScoreNext ==
    \/ ScoreEvent

(***************************************************************************)

(* The macro_events table: ingestion/rss.py insert_events and the batch    *)
(* scorer (significance.py fetch_events_to_score, update_event_scores).    *)
(* Every `with psycopg.connect(...)` block is one transaction, committed   *)
(* when the block is left; the actions below are those transactions.       *)
(***************************************************************************)
MaxPublished == 1
MaxBatch == 1
MaxEvOps == 3

FeedSources == {"reuters", "ap"}
\* a headline is identified with the term tables its text hits
HeadlinePool == {{}, {"econ", "metal", "macro"}, {"geopolitical"}, {"crisis", "metal"}}
RssEntries == [source : FeedSources, headline : HeadlinePool, published_at : 1..MaxPublished]
Scorers == {1, 2}

EventKey(r) == <<r.source, r.headline, r.published_at>>

\* the row INSERT INTO macro_events creates: the columns the statement does not
\* name take their defaults (significance_score NULL, priority_flag false)
NewEventRow(entry) ==
    [source |-> entry.source, headline |-> entry.headline,
     published_at |-> entry.published_at, status |-> "new",
     significance_score |-> Null, score_components |-> Null,
     priority_flag |-> FALSE]

\* INSERT ... ON CONFLICT (source, headline, published_at) DO NOTHING, per entry
InsertEventRows(table, entries) ==
    table \cup {NewEventRow(e) : e \in {x \in entries :
                    \A r \in table : EventKey(r) # EventKey(x)}}

\* the MacroEvent fetch_events_to_score builds from a row: event_type, regions,
\* entities and full_text are columns no ingestor sets, so they are NULL
RowToMacroEvent(r) ==
    [source |-> r.source, text |-> r.headline, event_type |-> "",
     regions |-> {}, entities |-> {}]

\* UPDATE macro_events SET significance_score, score_components, priority_flag
\* WHERE id = ...: one row
ScoredRow(r) ==
    LET scored == score_event(RowToMacroEvent(r))
    IN  [r EXCEPT !.significance_score = Some(scored.total_score),
                  !.score_components = Some(scored.components),
                  !.priority_flag = scored.priority_flag]

NeedsScoreAlways(r) == TRUE

\* WHERE significance_score IS NULL
NeedsScore(r) == r.significance_score = Null

EventsInit ==
    /\ macro_events = {}
    /\ scorer = [p \in Scorers |-> [pc |-> "idle", events |-> {}]]
    /\ ev_ops = 0

EventsIdle == EventsInit

\* insert_events(entries): the entries of one feed, one transaction
InsertEvents ==
    \E src \in FeedSources : \E entries \in SUBSET {e \in RssEntries : e.source = src} :
        /\ ev_ops < MaxEvOps
        /\ entries # {}
        /\ Cardinality(entries) <= MaxBatch
        /\ macro_events' = InsertEventRows(macro_events, entries)
        /\ ev_ops' = ev_ops + 1
        /\ UNCHANGED <<scorer, ev_others>>

\* main(): events = fetch_events_to_score(None); nothing to do when it is empty
FetchEventsToScore(p) ==
    /\ ev_ops < MaxEvOps
    /\ scorer[p].pc = "idle"
    /\ LET found == {EventKey(r) : r \in {x \in macro_events : NeedsScore(x)}}
       IN  scorer' = [scorer EXCEPT ![p] =
                        IF found = {} THEN [pc |-> "idle", events |-> {}]
                        ELSE [pc |-> "fetched", events |-> found]]
    /\ ev_ops' = ev_ops + 1
    /\ UNCHANGED <<macro_events, ev_others>>

\* update_event_scores(events): one UPDATE per fetched event, one transaction
UpdateEventScores(p) ==
    /\ scorer[p].pc = "fetched"
    /\ macro_events' = {IF EventKey(r) \in scorer[p].events THEN ScoredRow(r) ELSE r
                          : r \in macro_events}
    /\ scorer' = [scorer EXCEPT ![p] = [pc |-> "idle", events |-> {}]]
    /\ UNCHANGED <<ev_ops, ev_others>>

EventsNext ==
    \/ InsertEvents
    \/ \E p \in Scorers : FetchEventsToScore(p)
    \/ \E p \in Scorers : UpdateEventScores(p)

(***************************************************************************)
(* One macro event from ingest to analysis: the three writers of the       *)
(* macro_events table (ingestion/rss.py insert_events, significance.py     *)
(* update_event_scores, macro_event_analysis.py update_event_analysis) and *)
(* two concurrent runs of the analysis command.  Every statement runs in   *)
(* its own `with psycopg.connect(...)` transaction.                        *)
(***************************************************************************)
MaxLifeOps == 4

AnalysisColumns ==
    {"raw_facts", "metal_impacts", "historical_precedent", "counter_case",
     "crypto_transmission"}

LifeEntries ==
    [source : {"reuters"}, headline : {{"geopolitical"}, {"crisis", "metal"}},
     published_at : {1}]
AnalysisRuns == {1, 2}
\* what the provider answered, once parse_analysis_response accepted it: every
\* field of a MacroEventAnalysis is a non-empty list, a dict or a string
ProviderAnswers == {"first answer", "second answer"}

\* the row the INSERT creates, with the analysis columns at their default NULL
StoredEvent(entry) == NewEventRow(entry) @@ [c \in AnalysisColumns |-> Null]

insert_events_do_update(table, entries) ==
    {r \in table : \A e \in entries : EventKey(e) # EventKey(r)}
        \cup {StoredEvent(e) : e \in entries}

\* INSERT INTO macro_events ... ON CONFLICT (source, headline, published_at)
\* DO NOTHING, for the entries of one call, under the unique constraint
\* uq_macro_events_source_headline_published
insert_events(table, entries) ==
    table \cup {StoredEvent(e) : e \in {x \in entries :
                    \A r \in table : EventKey(r) # EventKey(x)}}

\* AND raw_facts IS NULL AND metal_impacts IS NULL AND ... IS NULL
AnalysisIsNull(r) == \A c \in AnalysisColumns : r[c] = Null

WhereAnyRow(r, overwrite) == TRUE

\* the WHERE clause of update_event_analysis beyond id = %(id)s
WhereNotAnalyzed(r, overwrite) == overwrite \/ AnalysisIsNull(r)

\* SET raw_facts = ..., metal_impacts = ..., ... crypto_transmission = ...
AnalyzedRow(r, answer) ==
    [c \in DOMAIN r |-> IF c \in AnalysisColumns THEN Some(answer) ELSE r[c]]

\* update_event_analysis(event_id, analysis, overwrite): the table after the
\* UPDATE and whether rowcount > 0
update_event_analysis(table, key, answer, overwrite) ==
    LET hit == {r \in table : EventKey(r) = key /\ WhereNotAnalyzed(r, overwrite)}
    IN  [table |-> (table \ hit) \cup {AnalyzedRow(r, answer) : r \in hit},
         updated |-> hit # {}]

\* fetch_priority_events(include_analyzed): WHERE priority_flag = true, and the
\* five IS NULL tests unless include_analyzed
fetch_priority_events(table, include_analyzed) ==
    {EventKey(r) : r \in {x \in table :
        x.priority_flag /\ (include_analyzed \/ AnalysisIsNull(x))}}

NoRun ==
    [pc |-> "idle", overwrite |-> FALSE, dry_run |-> FALSE, events |-> {},
     analyzed |-> 0, skipped |-> 0]
NoLog == [op |-> "none", keys |-> {}, run |-> 0, to_score |-> {}, ops |-> 0]

LifeInit ==
    /\ stored_events = {}
    /\ analysis_run = [p \in AnalysisRuns |-> NoRun]
    /\ life_log = NoLog

LifeIdle == LifeInit

Logged(op, keys, p, started) ==
    [life_log EXCEPT !.op = op, !.keys = keys, !.run = p,
                     !.ops = life_log.ops + started]

\* insert_events(entries): one call, one transaction
LifeIngest ==
    \E entries \in SUBSET LifeEntries :
        /\ entries # {}
        /\ life_log.ops < MaxLifeOps
        /\ stored_events' = insert_events(stored_events, entries)
        /\ life_log' = Logged("ingest", {EventKey(e) : e \in entries}, 0, 1)
        /\ UNCHANGED <<analysis_run, life_others>>

\* significance.py main(): fetch_events_to_score(None)
LifeFetchToScore ==
    /\ life_log.to_score = {}
    /\ life_log.ops < MaxLifeOps
    /\ \E r \in stored_events : NeedsScore(r)
    /\ life_log' = [Logged("fetch_to_score", {}, 0, 1) EXCEPT
                      !.to_score = {EventKey(r) : r \in {x \in stored_events : NeedsScore(x)}}]
    /\ UNCHANGED <<stored_events, analysis_run, life_others>>

\* significance.py main(): update_event_scores(events), which sets the three
\* score columns of each fetched row and no other column
LifeUpdateScores ==
    /\ life_log.to_score # {}
    /\ stored_events' = {IF EventKey(r) \in life_log.to_score THEN ScoredRow(r) ELSE r
                           : r \in stored_events}
    /\ life_log' = [Logged("score", life_log.to_score, 0, 0) EXCEPT !.to_score = {}]
    /\ UNCHANGED <<analysis_run, life_others>>

\* macro_event_analysis.py main() up to run_analysis: the options, then either
\* fetch_event_by_id(--event-id) or fetch_priority_events; an empty result
\* ends the command
AnalysisStart(p) ==
    \E overwrite \in BOOLEAN, dry_run \in BOOLEAN, by_id \in BOOLEAN :
        LET events == IF by_id THEN {EventKey(r) : r \in stored_events}
                      ELSE fetch_priority_events(stored_events, overwrite)
        IN  /\ analysis_run[p].pc = "idle"
            /\ life_log.ops < MaxLifeOps
            /\ events # {}
            /\ \/ ~by_id /\ analysis_run' = [analysis_run EXCEPT ![p] =
                      [NoRun EXCEPT !.pc = "running", !.overwrite = overwrite,
                                    !.dry_run = dry_run, !.events = events]]
               \/ by_id /\ \E k \in events : analysis_run' = [analysis_run EXCEPT ![p] =
                      [NoRun EXCEPT !.pc = "running", !.overwrite = overwrite,
                                    !.dry_run = dry_run, !.events = {k}]]
            /\ life_log' = Logged("fetch_to_analyze", {}, p, 1)
            /\ UNCHANGED <<stored_events, life_others>>

\* run_analysis: one turn of `for event in events`.  Rows that tie in the
\* query's ORDER BY come in any order, so the turn takes any event left.
AnalyzeEvent(p) ==
    \E k \in analysis_run[p].events : \E answer \in ProviderAnswers :
        LET run == analysis_run[p]
            upd == update_event_analysis(stored_events, k, answer, run.overwrite)
            wrote == ~run.dry_run /\ upd.updated
        IN  /\ run.pc = "running"
            /\ stored_events' = IF run.dry_run THEN stored_events ELSE upd.table
            /\ analysis_run' = [analysis_run EXCEPT ![p] =
                  [run EXCEPT !.events = run.events \ {k},
                              !.analyzed = IF run.dry_run \/ upd.updated THEN @ + 1 ELSE @,
                              !.skipped = IF ~run.dry_run /\ ~upd.updated THEN @ + 1 ELSE @]]
            /\ life_log' = Logged(IF wrote THEN "analyze" ELSE "analyze_nothing", {k}, p, 0)
            /\ UNCHANGED life_others

\* analyze_event raises (the provider fails, or parse_analysis_response rejects
\* the answer): the exception leaves run_analysis and main
AnalysisRaises(p) ==
    /\ analysis_run[p].pc = "running"
    /\ analysis_run[p].events # {}
    /\ analysis_run' = [analysis_run EXCEPT ![p] = NoRun]
    /\ life_log' = Logged("raise", {}, p, 0)
    /\ UNCHANGED <<stored_events, life_others>>

\* run_analysis returns the summary and main prints it
AnalysisReturns(p) ==
    /\ analysis_run[p].pc = "running"
    /\ analysis_run[p].events = {}
    /\ analysis_run' = [analysis_run EXCEPT ![p] = NoRun]
    /\ life_log' = Logged("summary", {}, p, 0)
    /\ UNCHANGED <<stored_events, life_others>>

LifeNext ==
    \/ LifeIngest
    \/ LifeFetchToScore
    \/ LifeUpdateScores
    \/ \E p \in AnalysisRuns : AnalysisStart(p)
    \/ \E p \in AnalysisRuns : AnalyzeEvent(p)
    \/ \E p \in AnalysisRuns : AnalysisRaises(p)
    \/ \E p \in AnalysisRuns : AnalysisReturns(p)

(***************************************************************************)

(* analysis/significance.py main(): one run of the scoring command is a    *)
(* pass, fetch_events_to_score(None) and then update_event_scores(events)  *)
(* or, with --dry-run, only the report.  The table starts with rows that   *)
(* ingestion has inserted, some of them scored by earlier passes.          *)
(***************************************************************************)
MaxPasses == 3

PassDates == {1, 2}
PassEntries == [source : {"reuters"}, headline : {{}, {"geopolitical"}}, published_at : PassDates]
PassTables ==
    {{IF st[e] = "scored" THEN ScoredRow(NewEventRow(e)) ELSE NewEventRow(e) :
          e \in {x \in PassEntries : st[x] # "absent"}} :
       st \in [PassEntries -> {"absent", "new", "scored"}]}

\* ORDER BY published_at NULLS LAST, created_at: the orders the query can return
\* the rows in (published_at is never NULL in a row that ingestion inserted;
\* rows inserted in one transaction have the same created_at)
RECURSIVE Orderings(_)
Orderings(rows) ==
    IF rows = {} THEN {<< >>}
    ELSE LET oldest == {r \in rows : \A x \in rows : r.published_at <= x.published_at}
         IN  UNION {{<<EventKey(r)>> \o rest : rest \in Orderings(rows \ {r})} : r \in oldest}

PassIdle ==
    /\ pass = [p \in Scorers |-> [pc |-> "idle", dry_run |-> FALSE, events |-> << >>, log |-> << >>]]
    /\ passes = 0

PassInit ==
    /\ macro_events \in PassTables
    /\ PassIdle

LogEntry(p, writes) ==
    [dry_run |-> pass[p].dry_run, selected |-> pass[p].events, writes |-> writes]

\* main() up to `if not events: return`
PassFetch(p) ==
    /\ passes < MaxPasses
    /\ pass[p].pc = "idle"
    /\ \E dry_run \in BOOLEAN :
       \E events \in Orderings({r \in macro_events : NeedsScore(r)}) :
          pass' = [pass EXCEPT ![p] =
              IF events = << >>
              THEN [@ EXCEPT !.log = Append(@, [dry_run |-> dry_run, selected |-> << >>, writes |-> 0])]
              ELSE [@ EXCEPT !.pc = "fetched", !.dry_run = dry_run, !.events = events]]
    /\ passes' = passes + 1
    /\ UNCHANGED <<macro_events, pass_others>>

\* if args.dry_run: the scores are computed and counted, nothing is written
PassDryRun(p) ==
    /\ pass[p].pc = "fetched" /\ pass[p].dry_run
    /\ pass' = [pass EXCEPT ![p] = [pc |-> "idle", dry_run |-> FALSE, events |-> << >>,
                                     log |-> Append(pass[p].log, LogEntry(p, 0))]]
    /\ UNCHANGED <<macro_events, passes, pass_others>>

\* update_event_scores(events): one UPDATE ... WHERE id = ... per fetched event,
\* in one transaction
PassUpdate(p) ==
    /\ pass[p].pc = "fetched" /\ ~pass[p].dry_run
    /\ LET ids == {pass[p].events[i] : i \in 1..Len(pass[p].events)}
       IN  macro_events' = {IF EventKey(r) \in ids THEN ScoredRow(r) ELSE r : r \in macro_events}
    /\ pass' = [pass EXCEPT ![p] = [pc |-> "idle", dry_run |-> FALSE, events |-> << >>,
                                     log |-> Append(pass[p].log, LogEntry(p, Len(pass[p].events)))]]
    /\ UNCHANGED <<passes, pass_others>>

PassNext ==
    \/ \E p \in Scorers : PassFetch(p)
    \/ \E p \in Scorers : PassDryRun(p)
    \/ \E p \in Scorers : PassUpdate(p)

(***************************************************************************)

(* scheduler/jobs.py and scheduler/scheduler.py.  The scheduler is an      *)
(* APScheduler 3.x BackgroundScheduler; create_scheduler adds each job     *)
(* without max_instances, so the library default of one running instance   *)
(* per job id applies: a trigger that fires while the job's previous run   *)
(* is still in the pool is skipped by the executor.                        *)
(***************************************************************************)
MaxSchedOps == 2

JOB_RSS == "rss_ingestion"
JOB_CALENDAR == "calendar_sync"
JOB_FED == "fed_sync"
JOB_PRICES == "price_ingestion"
JOB_MARKET_CONTEXT == "market_context_sync"
JOB_DIGEST == "digest_generation"

\* the jobs list of _run_initial_jobs, in its order
InitialJobs == <<JOB_RSS, JOB_CALENDAR, JOB_FED, JOB_PRICES, JOB_MARKET_CONTEXT, JOB_DIGEST>>
\* the job ids create_scheduler adds (all intervals > 0, the default settings)
ScheduledJobs == {JOB_RSS, JOB_CALENDAR, JOB_FED, JOB_PRICES, JOB_MARKET_CONTEXT, JOB_DIGEST}

\* what the wrapped work of a job does: returns, or raises an Exception with this text
WorkErrors == {"Connection failed", "Database unavailable"}
WorkOutcomes == {"ok"} \cup WorkErrors

JobWrapperReraises(outcome) ==
    IF outcome = "ok" THEN [raised |-> FALSE, status |-> "success", error |-> ""]
    ELSE [raised |-> TRUE, status |-> "", error |-> outcome]

\* job_ingest_rss .. job_sync_market_context: try: <work>; return {"status":
\* "success", ...} except Exception as exc: return {"status": "error", "error": str(exc)}
JobWrapper(outcome) ==
    IF outcome = "ok" THEN [raised |-> FALSE, status |-> "success", error |-> ""]
    ELSE [raised |-> FALSE, status |-> "error", error |-> outcome]

MaxInstances == 1

CanSubmitAlways(j) == TRUE

\* the executor's check before it starts a run of job j
CanSubmit(j) == job_instances[j] < MaxInstances

SchedInit ==
    /\ sched_phase = "initial"
    /\ run_initial \in BOOLEAN
    /\ init_idx = 1
    /\ main_job = ""
    /\ init_log = << >>
    /\ job_instances = [j \in ScheduledJobs |-> 0]
    /\ last_run = [j \in ScheduledJobs |-> Null]
    /\ missed = {}
    /\ sched_ops = 0

SchedIdle ==
    /\ sched_phase = "initial"
    /\ run_initial = TRUE
    /\ init_idx = 1
    /\ main_job = ""
    /\ init_log = << >>
    /\ job_instances = [j \in ScheduledJobs |-> 0]
    /\ last_run = [j \in ScheduledJobs |-> Null]
    /\ missed = {}
    /\ sched_ops = 0

\* _run_initial_jobs: the main thread calls the next job function
InitialJobStart ==
    /\ sched_phase = "initial" /\ run_initial
    /\ main_job = "" /\ init_idx <= Len(InitialJobs)
    /\ main_job' = InitialJobs[init_idx]
    /\ UNCHANGED <<sched_phase, run_initial, init_idx, init_log, job_instances,
                   last_run, missed, sched_ops, sched_others>>

\* the call returns (or raises into the loop's own except clause, which logs);
\* either way the loop goes on to the next job
InitialJobEnd ==
    /\ main_job # ""
    /\ \E outcome \in WorkOutcomes :
          init_log' = Append(init_log, [job |-> main_job, outcome |-> outcome,
                                        call |-> JobWrapper(outcome)])
    /\ main_job' = ""
    /\ init_idx' = init_idx + 1
    /\ UNCHANGED <<sched_phase, run_initial, job_instances, last_run, missed, sched_ops, sched_others>>

\* run_scheduler: after the initial run (if any), scheduler.start()
SchedulerStart ==
    /\ sched_phase = "initial" /\ main_job = ""
    /\ (~run_initial \/ init_idx > Len(InitialJobs))
    /\ sched_phase' = "started"
    /\ UNCHANGED <<run_initial, init_idx, main_job, init_log, job_instances,
                   last_run, missed, sched_ops, sched_others>>

\* the trigger of job j fires: the run is submitted to the pool, or skipped
TriggerFires(j) ==
    /\ sched_phase = "started" /\ sched_ops < MaxSchedOps
    /\ IF CanSubmit(j)
       THEN job_instances' = [job_instances EXCEPT ![j] = @ + 1] /\ UNCHANGED missed
       ELSE missed' = missed \cup {j} /\ UNCHANGED job_instances
    /\ sched_ops' = sched_ops + 1
    /\ UNCHANGED <<sched_phase, run_initial, init_idx, main_job, init_log, last_run, sched_others>>

\* a run of job j in the pool comes to its end
PoolJobEnd(j) ==
    /\ job_instances[j] > 0
    /\ \E outcome \in WorkOutcomes :
          last_run' = [last_run EXCEPT ![j] =
                          Some([outcome |-> outcome, call |-> JobWrapper(outcome)])]
    /\ job_instances' = [job_instances EXCEPT ![j] = @ - 1]
    /\ UNCHANGED <<sched_phase, run_initial, init_idx, main_job, init_log, missed, sched_ops, sched_others>>

SchedNext ==
    \/ InitialJobStart
    \/ InitialJobEnd
    \/ SchedulerStart
    \/ \E j \in ScheduledJobs : TriggerFires(j)
    \/ \E j \in ScheduledJobs : PoolJobEnd(j)

\* runs of job j in progress, in the main thread or in the pool
RunsInProgress(j) == job_instances[j] + (IF main_job = j THEN 1 ELSE 0)

(***************************************************************************)
(* scheduler/scheduler.py, run_scheduler from its first statement to the   *)
(* exit of the process: the initial run in the main thread, the signal     *)
(* handlers installed after it, scheduler.start(), runs in the pool, a     *)
(* dependency that never answers, SIGINT and SIGTERM.  What a run returns  *)
(* is left out here.  Library behaviour used: shutdown(wait=False) stops   *)
(* the triggers and does not wait for runs in the pool; the interpreter    *)
(* joins the pool's worker threads before the process exits.               *)
(***************************************************************************)
MaxTriggers == 2

Signals == {"SIGINT", "SIGTERM"}

ProcIdle ==
    proc = [phase |-> "idle", run_initial |-> TRUE, init_idx |-> 1, main_job |-> "",
            running |-> {}, hung |-> {}, triggers |-> 0, signal |-> "",
            started_after_signal |-> {}, cut_short |-> {}]

\* run_scheduler(run_initial) is called
ProcInit ==
    \E b \in BOOLEAN :
        proc = [phase |-> "initial", run_initial |-> b, init_idx |-> 1, main_job |-> "",
                running |-> {}, hung |-> {}, triggers |-> 0, signal |-> "",
                started_after_signal |-> {}, cut_short |-> {}]

\* _run_initial_jobs: the main thread calls the next job function
RunInitialJob ==
    /\ proc.phase = "initial" /\ proc.run_initial
    /\ proc.main_job = "" /\ proc.init_idx <= Len(InitialJobs)
    /\ proc' = [proc EXCEPT
           !.main_job = InitialJobs[proc.init_idx],
           !.started_after_signal =
               IF proc.signal # "" THEN @ \cup {InitialJobs[proc.init_idx]} ELSE @]
    /\ UNCHANGED proc_others

\* the job function returns to the loop of _run_initial_jobs
InitialJobReturns ==
    /\ proc.phase = "initial"
    /\ proc.main_job # "" /\ proc.main_job \notin proc.hung
    /\ proc' = [proc EXCEPT !.main_job = "", !.init_idx = @ + 1]
    /\ UNCHANGED proc_others

\* after the initial run (if any): signal.signal(SIGINT, handle_shutdown),
\* signal.signal(SIGTERM, handle_shutdown), scheduler.start()
StartScheduler ==
    /\ proc.phase = "initial" /\ proc.main_job = ""
    /\ (~proc.run_initial \/ proc.init_idx > Len(InitialJobs))
    /\ proc' = [proc EXCEPT !.phase = "started"]
    /\ UNCHANGED proc_others

\* the trigger of job j fires: a run starts in the pool unless one is in progress
Trigger(j) ==
    /\ proc.phase = "started" /\ proc.triggers < MaxTriggers
    /\ proc' = [proc EXCEPT
           !.triggers = @ + 1,
           !.running = @ \cup {j},
           !.started_after_signal = IF proc.signal # "" /\ j \notin proc.running
                                    THEN @ \cup {j} ELSE @]
    /\ UNCHANGED proc_others

\* a run of job j in the pool returns
PoolJobReturns(j) ==
    /\ proc.phase \in {"started", "stopping"}
    /\ j \in proc.running /\ j \notin proc.hung
    /\ proc' = [proc EXCEPT !.running = @ \ {j}]
    /\ UNCHANGED proc_others

\* the external dependency of the run of job j in progress stops answering:
\* the run never returns
DependencyHangs(j) ==
    /\ proc.phase \in {"initial", "started"}
    /\ j = proc.main_job \/ j \in proc.running
    /\ j \notin proc.hung
    /\ proc' = [proc EXCEPT !.hung = @ \cup {j}]
    /\ UNCHANGED proc_others

\* a signal before the handlers are installed.  SIGTERM has its default
\* action: the process is terminated.  SIGINT raises KeyboardInterrupt in the
\* main thread, which no `except Exception` clause catches: it leaves the job
\* function, _run_initial_jobs and run_scheduler.
SignalDuringInitialRun(sig) ==
    /\ proc.phase = "initial"
    /\ proc' = [proc EXCEPT
           !.phase = "exited", !.signal = sig,
           !.cut_short = IF proc.main_job = "" THEN {} ELSE {proc.main_job},
           !.main_job = ""]
    /\ UNCHANGED proc_others

\* handle_shutdown: scheduler.shutdown(wait=False); sys.exit(0)
HandleShutdown(sig) ==
    /\ proc.phase = "started"
    /\ proc' = [proc EXCEPT !.phase = "stopping", !.signal = sig]
    /\ UNCHANGED proc_others

\* the main thread has left run_scheduler; the process exits once no worker
\* thread of the pool is running a job
ProcessExits ==
    /\ proc.phase = "stopping"
    /\ proc.running = {}
    /\ proc' = [proc EXCEPT !.phase = "exited"]
    /\ UNCHANGED proc_others

ProcNext ==
    \/ RunInitialJob
    \/ InitialJobReturns
    \/ StartScheduler
    \/ \E j \in ScheduledJobs : Trigger(j)
    \/ \E j \in ScheduledJobs : PoolJobReturns(j)
    \/ \E j \in ScheduledJobs : DependencyHangs(j)
    \/ \E sig \in Signals : SignalDuringInitialRun(sig)
    \/ \E sig \in Signals : HandleShutdown(sig)
    \/ ProcessExits

(***************************************************************************)

(* The ingestors' writes: ingestion/rss.py insert_events,                  *)
(* economic_calendar.py upsert_events, prices.py insert_prices and         *)
(* central_banks/fed.py insert_comms.  Each opens one connection per call  *)
(* (`with psycopg.connect(database_url) as conn`, autocommit off), writes   *)
(* the records of its batch one statement at a time, and the block commits *)
(* when it is left normally and rolls back when it is left by an exception.*)
(***************************************************************************)
MaxRecs == 2

IngestKinds == {"rss", "calendar", "prices", "fed"}
\* the per-unit except clauses: ingest_sources (rss.py) and ingest_prices
\* (prices.py) catch a unit's failure; sync_calendar and ingest_fomc_statements do not
CatchesPerUnit(kind) == kind \in {"rss", "prices"}

FeedOfUnit == <<"reuters", "ap">>
SymbolOfUnit == <<"GC=F", "SI=F">>
IngestHeadlines == {{}, {"geopolitical"}}
PriceDates == {1, 2}
CalendarKeys == {"CPI", "NFP"}
FieldValues == {"v1", "v2"}
StatementDates == {1, 2}
StatementTexts == {"a", "b"}

\* the records a unit (feed, calendar sync, symbol, year page) can hold
RecordsOf(kind, u) ==
    CASE kind = "rss" ->
           {e \in RssEntries : e.source = FeedOfUnit[u] /\ e.headline \in IngestHeadlines}
      [] kind = "calendar" -> [key : CalendarKeys, val : FieldValues]
      [] kind = "prices" -> [key : {<<SymbolOfUnit[u], d>> : d \in PriceDates}, val : FieldValues]
      [] kind = "fed" -> [published_at : StatementDates, full_text : StatementTexts]

UnitsOf(kind) == IF kind = "calendar" THEN 1 ELSE 2

SeqsUpTo(S, n) == UNION {[1..m -> S] : m \in 0..n}

InputsOf(kind) ==
    {inp \in [1..UnitsOf(kind) -> SeqsUpTo(UNION {RecordsOf(kind, u) : u \in 1..UnitsOf(kind)}, MaxRecs)] :
        \A u \in 1..UnitsOf(kind) : \A i \in 1..Len(inp[u]) : inp[u][i] \in RecordsOf(kind, u)}

\* INSERT ... ON CONFLICT (key) DO UPDATE SET <fields> = EXCLUDED.<fields>
UpsertRow(table, rec) == {r \in table : r.key # rec.key} \cup {rec}

\* difflib.unified_diff of the two texts' lines: no line when they are equal
UnifiedDiff(previous, current) == IF previous = current THEN << >> ELSE <<previous, current>>

\* change_vs_previous(previous, current)
change_vs_previous(previous, current) ==
    IF previous = Null THEN Null ELSE Some(UnifiedDiff(previous[1], current))

ExistingCommNever(rows, published_at) == FALSE

\* `if _existing_comm_text(conn, bank, comm_type, published_at)`: a row of that
\* date with a non-empty text
ExistingComm(rows, published_at) ==
    \E r \in rows : r.published_at = published_at /\ r.full_text # ""

\* _previous_comm_text: ORDER BY published_at DESC LIMIT 1 among the earlier rows;
\* the texts it can return (Null when there is no earlier row)
PreviousCommTexts(rows, published_at) ==
    LET earlier == {r \in rows : r.published_at < published_at}
        latest == {r \in earlier : \A q \in earlier : q.published_at <= r.published_at}
    IN  IF earlier = {} THEN {Null} ELSE {Some(r.full_text) : r \in latest}

\* the loop body of insert_comms for one entry: the tables it can leave
InsertCommResults(rows, entry) ==
    IF ExistingComm(rows, entry.published_at) THEN {rows}
    ELSE {rows \cup {[id |-> Cardinality(rows) + 1,
                      published_at |-> entry.published_at,
                      full_text |-> entry.full_text,
                      change_vs_previous |-> change_vs_previous(prev, entry.full_text)]}
            : prev \in PreviousCommTexts(rows, entry.published_at)}

\* one conn.execute of the batch loop
WriteResults(kind, table, rec) ==
    CASE kind = "rss" -> {InsertEventRows(table, {rec})}
      [] kind \in {"calendar", "prices"} -> {UpsertRow(table, rec)}
      [] kind = "fed" -> InsertCommResults(table, rec)

\* sorted(entries, key=published_at): a stable sort
RECURSIVE InsertByDate(_, _)
InsertByDate(sorted, x) ==
    IF sorted = << >> THEN <<x>>
    ELSE IF sorted[Len(sorted)].published_at <= x.published_at THEN Append(sorted, x)
    ELSE Append(InsertByDate(SubSeq(sorted, 1, Len(sorted) - 1), x), sorted[Len(sorted)])

RECURSIVE SortByDate(_)
SortByDate(seq) ==
    IF seq = << >> THEN << >>
    ELSE InsertByDate(SortByDate(SubSeq(seq, 1, Len(seq) - 1)), seq[Len(seq)])

TableOf(kind) ==
    CASE kind = "rss" -> macro_events
      [] kind = "calendar" -> economic_events
      [] kind = "prices" -> daily_prices
      [] kind = "fed" -> central_bank_comms

SetTable(kind, rows) ==
    /\ macro_events' = IF kind = "rss" THEN rows ELSE macro_events
    /\ economic_events' = IF kind = "calendar" THEN rows ELSE economic_events
    /\ daily_prices' = IF kind = "prices" THEN rows ELSE daily_prices
    /\ central_bank_comms' = IF kind = "fed" THEN rows ELSE central_bank_comms

\* psycopg.connect(database_url): autocommit is off, the connection block is one transaction
Autocommit == FALSE

TablesIdle ==
    /\ economic_events = {}
    /\ daily_prices = {}
    /\ central_bank_comms = {}

IngestIdle ==
    /\ ing = [kind |-> "rss", input |-> << >>, run |-> 1, unit |-> 1, pos |-> 1,
              open |-> FALSE, batch |-> << >>, work |-> {}, before |-> {},
              failed |-> FALSE, done |-> TRUE]
    /\ snap_first = {}
    /\ fail_info = Null

IngestInit ==
    /\ TablesIdle
    /\ \E kind \in IngestKinds : \E input \in InputsOf(kind) :
          ing = [kind |-> kind, input |-> input, run |-> 1, unit |-> 1, pos |-> 1,
                 open |-> FALSE, batch |-> << >>, work |-> {}, before |-> {},
                 failed |-> FALSE, done |-> FALSE]
    /\ snap_first = {}
    /\ fail_info = Null

\* the ingestor opens the connection for its next unit
BeginBatch ==
    /\ ~ing.done /\ ~ing.open /\ ing.unit <= Len(ing.input)
    /\ ing' = [ing EXCEPT !.open = TRUE, !.pos = 1,
                           !.batch = IF ing.kind = "fed" THEN SortByDate(ing.input[ing.unit])
                                     ELSE ing.input[ing.unit],
                           !.work = TableOf(ing.kind), !.before = TableOf(ing.kind)]
    /\ UNCHANGED <<macro_events, tables, snap_first, fail_info, ing_others>>

\* conn.execute for the next record of the batch
WriteRecord ==
    /\ ing.open /\ ing.pos <= Len(ing.batch)
    /\ \E w \in WriteResults(ing.kind, ing.work, ing.batch[ing.pos]) :
          /\ ing' = [ing EXCEPT !.work = w, !.pos = @ + 1]
          /\ IF Autocommit THEN SetTable(ing.kind, w) ELSE UNCHANGED <<macro_events, tables>>
    /\ UNCHANGED <<snap_first, fail_info, ing_others>>

\* the block is left normally: commit
CommitBatch ==
    /\ ing.open /\ ing.pos > Len(ing.batch)
    /\ SetTable(ing.kind, ing.work)
    /\ ing' = [ing EXCEPT !.open = FALSE, !.unit = @ + 1]
    /\ UNCHANGED <<snap_first, fail_info, ing_others>>

\* a store error (or a crash) while the batch is being written: the transaction is
\* rolled back; the error is caught per unit (rss, prices) or ends the run
BatchFails ==
    /\ ing.open /\ ing.pos <= Len(ing.batch)
    /\ fail_info' = Some([kind |-> ing.kind, before |-> ing.before,
                           after |-> TableOf(ing.kind),
                           written |-> {ing.batch[i] : i \in 1..(ing.pos - 1)}])
    /\ ing' = [ing EXCEPT !.open = FALSE, !.failed = TRUE,
                           !.unit = IF CatchesPerUnit(ing.kind) THEN @ + 1
                                    ELSE Len(ing.input) + 1]
    /\ UNCHANGED <<macro_events, tables, snap_first, ing_others>>

\* the run is over; the same input is ingested a second time
EndRun ==
    /\ ~ing.done /\ ~ing.open /\ ing.unit > Len(ing.input)
    /\ IF ing.run = 1
       THEN /\ snap_first' = TableOf(ing.kind)
            /\ ing' = [ing EXCEPT !.run = 2, !.unit = 1]
       ELSE /\ ing' = [ing EXCEPT !.done = TRUE]
            /\ UNCHANGED snap_first
    /\ UNCHANGED <<macro_events, tables, fail_info, ing_others>>

IngestNext ==
    \/ BeginBatch
    \/ WriteRecord
    \/ CommitBatch
    \/ BatchFails
    \/ EndRun

(***************************************************************************)
(* ingestion/rss.py: fetch_feed, ingest_feed and the batch loop            *)
(* ingest_sources over the feeds of rss_poller.DEFAULT_FEEDS.              *)
(***************************************************************************)
MaxFeeds == 5

MAX_RETRIES == 3
RATE_LIMIT_CODES == {429, 403, 503}
DEFAULT_FEEDS ==
    <<"reuters", "ap", "bloomberg", "central_banks", "commodities", "geopolitical", "inflation">>
MIN_DELAY_BETWEEN_FEEDS == 1
MAX_FEED_DELAY == 30

\* the Retry-After header of a response: absent, a number of seconds, an HTTP
\* date (value: seconds from now to that date), or text that is neither
NoHeader == [form |-> "absent", value |-> 0]
RetryAfterHeaders ==
    {NoHeader, [form |-> "garbage", value |-> 0]}
    \cup {[form |-> "seconds", value |-> n] : n \in {0, 10, 120}}
    \cup {[form |-> "date", value |-> n] : n \in {-10, 10}}

\* what one urlopen of fetch_feed can do: a body, an HTTPError with a status, a
\* URLError, or another exception of the request (a read timeout; a ValueError
\* for a url that is not one)
FetchResponses ==
    {[kind |-> "ok", code |-> 200, retry_after |-> NoHeader]}
    \cup {[kind |-> "HTTPError", code |-> c, retry_after |-> h] :
             c \in RATE_LIMIT_CODES, h \in RetryAfterHeaders}
    \cup {[kind |-> "HTTPError", code |-> c, retry_after |-> NoHeader] : c \in {500, 404}}
    \cup {[kind |-> k, code |-> 0, retry_after |-> NoHeader] :
             k \in {"URLError", "TimeoutError", "ValueError"}}

FetchStepRetriesAny(attempt, resp) ==
    CASE resp.kind = "ok" -> "return"
      [] resp.kind = "HTTPError" /\ resp.code \in RATE_LIMIT_CODES ->
           IF attempt < MAX_RETRIES - 1 THEN "retry" ELSE "RateLimitError"
      [] OTHER -> IF attempt < MAX_RETRIES - 1 THEN "retry" ELSE resp.kind

FetchStepOneMore(attempt, resp) ==
    CASE resp.kind = "ok" -> "return"
      [] resp.kind = "HTTPError" /\ resp.code \in RATE_LIMIT_CODES ->
           IF attempt < MAX_RETRIES THEN "retry" ELSE "RateLimitError"
      [] resp.kind = "HTTPError" /\ resp.code \notin RATE_LIMIT_CODES ->
           IF resp.code >= 500 /\ attempt < MAX_RETRIES THEN "retry" ELSE "HTTPError"
      [] OTHER -> IF attempt < MAX_RETRIES THEN "retry" ELSE resp.kind

\* one pass of the retry loop of fetch_feed: return the body, sleep and retry,
\* or raise (RateLimitError for a rate-limit code, the error itself otherwise)
FetchStep(attempt, resp) ==
    CASE resp.kind = "ok" -> "return"
      [] resp.kind = "HTTPError" /\ resp.code \in RATE_LIMIT_CODES ->
           IF attempt < MAX_RETRIES - 1 THEN "retry" ELSE "RateLimitError"
      [] resp.kind = "HTTPError" /\ resp.code \notin RATE_LIMIT_CODES ->
           IF resp.code >= 500 /\ attempt < MAX_RETRIES - 1 THEN "retry" ELSE "HTTPError"
      [] OTHER -> IF attempt < MAX_RETRIES - 1 THEN "retry" ELSE resp.kind

\* the entries parse_rss can find in a feed of the source
FeedEntries(source) ==
    [source : {source}, headline : IngestHeadlines, published_at : {1}]

\* what ingest_feed can do with a fetched body: a parse error, a store error, or
\* the entries it inserts
IngestOutcomes(source) ==
    {[error |-> "ParseError", entries |-> {}], [error |-> "StoreError", entries |-> {}]}
    \cup {[error |-> "", entries |-> es] : es \in SUBSET FeedEntries(source)}

ExceptClauseWithoutGeneric(exc) ==
    IF exc = "RateLimitError" THEN "rate_limit" ELSE "propagate"

\* the except clauses of the loop body of ingest_sources
ExceptClause(exc) ==
    IF exc = "RateLimitError" THEN "rate_limit" ELSE "generic"

RssIdle ==
    rss = [feeds |-> << >>, idx |-> 1, attempt |-> 0, phase |-> "done",
           results |-> << >>, failed |-> {}, attempted |-> << >>,
           delay_between_feeds |-> MIN_DELAY_BETWEEN_FEEDS,
           rate_limited |-> {}, sleeps |-> << >>]

\* ingest_sources(DEFAULT_FEEDS) from the job and the poller, or the poller's single feed
RssInit ==
    \E feeds \in {SubSeq(DEFAULT_FEEDS, 1, MaxFeeds)} \cup {<<DEFAULT_FEEDS[i]>> : i \in 1..MaxFeeds} :
        rss = [feeds |-> feeds, idx |-> 1, attempt |-> 0, phase |-> "fetch",
               results |-> << >>, failed |-> {}, attempted |-> << >>,
               delay_between_feeds |-> MIN_DELAY_BETWEEN_FEEDS,
               rate_limited |-> {}, sleeps |-> << >>]

\* results[feed.source] = count
SetResult(results, source, count) ==
    [s \in DOMAIN results \cup {source} |-> IF s = source THEN count ELSE results[s]]

RaisedDelayUncapped(delay) == delay * 2

\* delay_between_feeds after a RateLimitError
RaisedDelay(delay) == Min(delay * 2, MAX_FEED_DELAY)

\* the rest of the loop body once the feed's try block is left, by its last
\* statement (exc = "") or by an exception: the except clause, then the sleep
\* before the next feed (sleeps records its base; a jitter of 0 to delay_jitter
\* seconds is added to it)
FeedEnds(count, exc) ==
    LET source == rss.feeds[rss.idx]
        clause == IF exc = "" THEN "none" ELSE ExceptClause(exc)
        delay == IF clause = "rate_limit"
                 THEN RaisedDelay(rss.delay_between_feeds)
                 ELSE rss.delay_between_feeds
    IN  IF clause = "propagate"
        THEN rss' = [rss EXCEPT !.phase = "raised"]
        ELSE rss' = [rss EXCEPT
                 !.results = SetResult(@, source, IF exc = "" THEN count ELSE 0),
                 !.failed = IF exc = "" THEN @ ELSE @ \cup {rss.idx},
                 !.delay_between_feeds = delay,
                 !.rate_limited = IF clause = "rate_limit" THEN @ \cup {rss.idx} ELSE @,
                 !.sleeps = IF rss.idx < Len(rss.feeds) THEN Append(@, delay) ELSE @,
                 !.idx = @ + 1, !.attempt = 0,
                 !.phase = IF rss.idx = Len(rss.feeds) THEN "done" ELSE "fetch"]

\* the loop of ingest_sources reaches its next feed
NextFeed ==
    /\ rss.phase = "fetch"
    /\ Len(rss.attempted) < rss.idx
    /\ rss' = [rss EXCEPT !.attempted = Append(@, rss.feeds[rss.idx])]
    /\ UNCHANGED <<macro_events, rss_others>>

\* one attempt of fetch_feed(feed.url)
FetchFeedAttempt ==
    /\ rss.phase = "fetch"
    /\ Len(rss.attempted) = rss.idx
    /\ \E resp \in FetchResponses :
          LET step == FetchStep(rss.attempt, resp)
          IN  CASE step = "return" -> rss' = [rss EXCEPT !.phase = "ingest"]
                [] step = "retry" -> rss' = [rss EXCEPT !.attempt = @ + 1]
                [] OTHER -> FeedEnds(0, step)
    /\ UNCHANGED <<macro_events, rss_others>>

\* count = ingest_feed(feed_xml, feed.source); results[feed.source] = count
IngestFeed ==
    /\ rss.phase = "ingest"
    /\ \E out \in IngestOutcomes(rss.feeds[rss.idx]) :
          LET after == InsertEventRows(macro_events, out.entries)
          IN  /\ macro_events' = IF out.error = "" THEN after ELSE macro_events
              /\ FeedEnds(Cardinality(after) - Cardinality(macro_events), out.error)
    /\ UNCHANGED rss_others

RssNext ==
    \/ NextFeed
    \/ FetchFeedAttempt
    \/ IngestFeed

(***************************************************************************)
(* ingestion/rss.py: one call of fetch_feed, pass by pass of its retry     *)
(* loop, with the waits it makes.  Times are in milliseconds.              *)
(***************************************************************************)
BACKOFF_BASE_DELAY == 2000
BACKOFF_MAX_DELAY == 60000
BACKOFF_MULTIPLIER == 2
JITTER_RANGE == 500
MIN_BACKOFF == 100

\* random.random() in thousandths: a float of [0, 1)
RandomDraws == {0, 500, 999}

RECURSIVE Pow(_, _)
Pow(b, n) == IF n = 0 THEN 1 ELSE b * Pow(b, n - 1)

\* the header as a number of milliseconds, or None
_parse_retry_after(header) ==
    CASE header.form = "seconds" -> Some(header.value * 1000)
      [] header.form = "date" -> Some(Max(0, header.value) * 1000)
      [] OTHER -> Null

\* base delay from Retry-After when it is positive, else exponential; jitter of
\* JITTER_RANGE thousandths of the base either way; never below MIN_BACKOFF
_calculate_backoff(attempt, retry_after, random) ==
    LET base_delay ==
            IF retry_after # Null /\ retry_after[1] > 0
            THEN Min(retry_after[1], BACKOFF_MAX_DELAY)
            ELSE Min(BACKOFF_BASE_DELAY * Pow(BACKOFF_MULTIPLIER, attempt), BACKOFF_MAX_DELAY)
        jitter == (((base_delay * JITTER_RANGE) \div 1000) * (2 * random - 1000)) \div 1000
    IN  Max(MIN_BACKOFF, base_delay + jitter)

\* the retry_after that fetch_feed hands to _calculate_backoff: parsed from the
\* header in the rate-limit branch, left out in the others
BackoffHint(resp) ==
    IF resp.kind = "HTTPError" /\ resp.code \in RATE_LIMIT_CODES
    THEN _parse_retry_after(resp.retry_after)
    ELSE Null

FetchIdle ==
    fetch = [pc |-> "idle", attempt |-> 0, responses |-> << >>, sleeps |-> << >>, exc |-> ""]

\* fetch_feed(url) is called
FetchInit ==
    fetch = [pc |-> "request", attempt |-> 0, responses |-> << >>, sleeps |-> << >>, exc |-> ""]

\* urllib.request.urlopen(req, timeout=REQUEST_TIMEOUT) and response.read()
FetchFeedRequest ==
    /\ fetch.pc = "request"
    /\ \E resp \in FetchResponses :
          fetch' = [fetch EXCEPT !.pc = "handle", !.responses = Append(@, resp)]
    /\ UNCHANGED fetch_others

\* the rest of the loop pass: return the body, or the except clause that
\* sleeps and continues, or raises
FetchFeedHandle ==
    /\ fetch.pc = "handle"
    /\ LET resp == fetch.responses[Len(fetch.responses)]
           step == FetchStep(fetch.attempt, resp)
       IN  CASE step = "return" -> fetch' = [fetch EXCEPT !.pc = "returned"]
             [] step = "retry" ->
                  \E random \in RandomDraws :
                      fetch' = [fetch EXCEPT
                          !.pc = "request", !.attempt = @ + 1,
                          !.sleeps = Append(@, _calculate_backoff(fetch.attempt, BackoffHint(resp), random))]
             [] OTHER -> fetch' = [fetch EXCEPT !.pc = "raised", !.exc = step]
    /\ UNCHANGED fetch_others

FetchNext ==
    \/ FetchFeedRequest
    \/ FetchFeedHandle

(***************************************************************************)

(* ingestion/rss_poller.py: the poll loop of run(interval, feeds).  One     *)
(* cycle is a call of ingest_sources, of which the loop uses the results   *)
(* map only, followed by the backoff sleep and the interval sleep.  Times  *)
(* are in milliseconds.                                                    *)
(***************************************************************************)
MaxCycles == 8
MaxPollFeeds == 2

POLLER_BACKOFF_BASE_DELAY == 5000
POLLER_BACKOFF_MAX_DELAY == 300000
POLLER_BACKOFF_MULTIPLIER == 2
POLLER_JITTER == 200

\* the --interval argument: 0 runs one cycle, otherwise seconds between cycles
PollIntervals == {0, 60}
\* what ingest_sources can return for the feeds: a count per source
PollResults == [{DEFAULT_FEEDS[i] : i \in 1..MaxPollFeeds} -> {0, 1, 2}]

BackoffUncapped(consecutive_failures) ==
    POLLER_BACKOFF_BASE_DELAY * Pow(POLLER_BACKOFF_MULTIPLIER, consecutive_failures - 1)

\* current_backoff before its jitter
Backoff(consecutive_failures) ==
    Min(POLLER_BACKOFF_BASE_DELAY * Pow(POLLER_BACKOFF_MULTIPLIER, consecutive_failures - 1),
        POLLER_BACKOFF_MAX_DELAY)

PollIdle ==
    poll = [pc |-> "idle", interval |-> 0, cycles |-> 0, consecutive_failures |-> 0,
            current_backoff |-> 0, results |-> << >>, zero_run |-> 0, slept |-> Null]

\* run(interval, feeds) is called
PollInit ==
    \E interval \in PollIntervals :
        poll = [pc |-> "ingest", interval |-> interval, cycles |-> 0, consecutive_failures |-> 0,
                current_backoff |-> 0, results |-> << >>, zero_run |-> 0, slept |-> Null]

\* the try block of one cycle, and the return of a run with interval <= 0.
\* zero_run counts the cycles in a row in which every feed returned 0 events.
PollIngest ==
    /\ poll.pc = "ingest"
    /\ poll.cycles < MaxCycles
    /\ \E results \in PollResults :
          LET failed_feeds == Cardinality({s \in DOMAIN results : results[s] = 0})
              len_results == Cardinality(DOMAIN results)
          IN  poll' = [poll EXCEPT
                  !.pc = IF poll.interval <= 0 THEN "returned" ELSE "sleep",
                  !.cycles = @ + 1,
                  !.results = results,
                  !.consecutive_failures =
                      IF failed_feeds < len_results THEN 0 ELSE @ + 1,
                  !.current_backoff = IF failed_feeds = 0 THEN 0 ELSE @,
                  !.zero_run = IF \A s \in DOMAIN results : results[s] = 0 THEN @ + 1 ELSE 0,
                  !.slept = Null]
    /\ UNCHANGED poll_others

\* the rest of the loop body: the backoff sleep when consecutive_failures > 0,
\* then time.sleep(interval)
PollSleep ==
    /\ poll.pc = "sleep"
    /\ IF poll.consecutive_failures > 0
       THEN \E random \in RandomDraws :
               LET backoff == Backoff(poll.consecutive_failures)
                   jittered == backoff + (random * ((backoff * POLLER_JITTER) \div 1000)) \div 1000
               IN  poll' = [poll EXCEPT !.pc = "ingest", !.current_backoff = jittered,
                                        !.slept = Some(jittered)]
       ELSE poll' = [poll EXCEPT !.pc = "ingest"]
    /\ UNCHANGED poll_others

PollNext ==
    \/ PollIngest
    \/ PollSleep

(***************************************************************************)

(* ingestion/rss_poller.py run(interval, feeds) with the calls below it:   *)
(* a cycle is ingest_sources over the feeds, each feed fetched (fetch_feed *)
(* raises or returns the XML), parsed and inserted (ingest_feed), and the  *)
(* loop sees the count per source only.                                    *)
(***************************************************************************)
MaxQuietCycles == 3

QuietFeeds == {"reuters", "ap"}
FeedItems == {1, 2}
\* per feed: whether fetch_feed returned, and the items parse_rss found
FeedAnswers == [fetched : BOOLEAN, items : SUBSET FeedItems]

\* ingest_feed: 0 for a feed without entries, else what insert_events counts,
\* the rows INSERT ... ON CONFLICT DO NOTHING really inserted
ingest_feed(store, source, items) ==
    Cardinality({i \in items : <<source, i>> \notin store})

\* ingest_sources: results[feed.source] is ingest_feed's count, or 0 in both
\* except clauses
ingest_sources(store, answers) ==
    [s \in QuietFeeds |->
        IF answers[s].fetched THEN ingest_feed(store, s, answers[s].items) ELSE 0]

\* failed_feeds = sum(1 for count in results.values() if count == 0)
FailedFeeds(results) ==
    Cardinality({s \in DOMAIN results : results[s] = 0})

NoAnswers == [s \in QuietFeeds |-> [fetched |-> FALSE, items |-> {}]]

QuietIdle ==
    /\ feed_store = {}
    /\ quiet_poll = [pc |-> "idle", interval |-> 0, cycles |-> 0, consecutive_failures |-> 0,
                     current_backoff |-> 0, answers |-> NoAnswers,
                     results |-> [s \in QuietFeeds |-> 0], duplicates |-> {}, slept |-> Null]

\* run(interval, feeds) is called on an empty store
QuietInit ==
    /\ feed_store = {}
    /\ \E interval \in PollIntervals :
          quiet_poll = [pc |-> "ingest", interval |-> interval, cycles |-> 0,
                        consecutive_failures |-> 0, current_backoff |-> 0,
                        answers |-> NoAnswers, results |-> [s \in QuietFeeds |-> 0],
                        duplicates |-> {}, slept |-> Null]

\* the try block of one cycle: ingest_sources, then the failure counters.
\* duplicates keeps the items of the cycle that were already stored.
QuietIngest ==
    /\ quiet_poll.pc = "ingest"
    /\ quiet_poll.cycles < MaxQuietCycles
    /\ \E answers \in [QuietFeeds -> FeedAnswers] :
          LET results == ingest_sources(feed_store, answers)
              offered == {k \in QuietFeeds \X FeedItems :
                             answers[k[1]].fetched /\ k[2] \in answers[k[1]].items}
              failed_feeds == FailedFeeds(results)
              len_results == Cardinality(DOMAIN results)
          IN  /\ \A s \in QuietFeeds : ~answers[s].fetched => answers[s].items = {}
              /\ feed_store' = feed_store \cup offered
              /\ quiet_poll' = [quiet_poll EXCEPT
                    !.pc = IF quiet_poll.interval <= 0 THEN "returned" ELSE "sleep",
                    !.cycles = @ + 1,
                    !.answers = answers,
                    !.results = results,
                    !.duplicates = offered \cap feed_store,
                    !.consecutive_failures =
                        IF failed_feeds < len_results THEN 0 ELSE @ + 1,
                    !.current_backoff = IF failed_feeds = 0 THEN 0 ELSE @,
                    !.slept = Null]
    /\ UNCHANGED quiet_others

\* the rest of the loop body: the backoff sleep when consecutive_failures > 0,
\* then time.sleep(interval)
QuietSleep ==
    /\ quiet_poll.pc = "sleep"
    /\ IF quiet_poll.consecutive_failures > 0
       THEN \E random \in RandomDraws :
               LET backoff == Backoff(quiet_poll.consecutive_failures)
                   jittered == backoff + (random * ((backoff * POLLER_JITTER) \div 1000)) \div 1000
               IN  quiet_poll' = [quiet_poll EXCEPT !.pc = "ingest", !.current_backoff = jittered,
                                                    !.slept = Some(jittered)]
       ELSE quiet_poll' = [quiet_poll EXCEPT !.pc = "ingest"]
    /\ UNCHANGED <<feed_store, quiet_others>>

QuietNext ==
    \/ QuietIngest
    \/ QuietSleep

(***************************************************************************)

(* ingestion/central_banks/fed.py insert_comms run by two processes (the   *)
(* scheduler's job_sync_fed and the command line) over the same entries.   *)
(* Each call is one transaction at the server's default isolation level,   *)
(* READ COMMITTED: a statement sees the rows committed before it started   *)
(* and the rows its own transaction wrote.  Table central_bank_comms has a *)
(* primary key on id, a fresh gen_random_uuid() per row, and no other      *)
(* constraint, so no INSERT waits for or fails on another.                 *)
(***************************************************************************)
MaxCommStarts == 3

CommRuns == {"scheduler", "cli"}

\* what fetch_statement_entries returns for a year page: statements of
\* distinct dates with a non-empty text
CommEntries ==
    {s \in SeqsUpTo([published_at : StatementDates, full_text : StatementTexts], 2) :
        /\ s # << >>
        /\ \A i, j \in 1..Len(s) : i # j => s[i].published_at # s[j].published_at}

NoCommRun ==
    [pc |-> "idle", entries |-> << >>, idx |-> 1, pending |-> {}, inserted |-> 0, rows |-> 0]

CommIdle ==
    /\ comms_store = {}
    /\ comm_run = [p \in CommRuns |-> NoCommRun]
    /\ comm_starts = 0

CommInit == CommIdle

\* the rows a statement of process p sees
Visible(p) == comms_store \cup comm_run[p].pending

\* insert_comms(entries) up to the with block: sorted(entries), connect
CommBegin(p) ==
    \E entries \in CommEntries :
        /\ comm_run[p].pc = "idle"
        /\ comm_starts < MaxCommStarts
        /\ comm_run' = [comm_run EXCEPT ![p] =
              [NoCommRun EXCEPT !.pc = "check", !.entries = SortByDate(entries),
                                !.rows = comm_run[p].rows]]
        /\ comm_starts' = comm_starts + 1
        /\ UNCHANGED <<comms_store, comm_others>>

\* `if _existing_comm_text(...): continue`, the SELECT of one entry
CommCheck(p) ==
    LET run == comm_run[p]
    IN  /\ run.pc = "check"
        /\ run.idx <= Len(run.entries)
        /\ comm_run' = [comm_run EXCEPT ![p] =
              IF ExistingComm(Visible(p), run.entries[run.idx].published_at)
              THEN [run EXCEPT !.idx = @ + 1]
              ELSE [run EXCEPT !.pc = "insert"]]
        /\ UNCHANGED <<comms_store, comm_starts, comm_others>>

\* _previous_comm_text, change_vs_previous and the INSERT of one entry; the
\* row's id is a new uuid, here the process and its count of rows
CommInsert(p) ==
    LET run == comm_run[p]
        entry == run.entries[run.idx]
    IN  /\ run.pc = "insert"
        /\ \E prev \in PreviousCommTexts(Visible(p), entry.published_at) :
              comm_run' = [comm_run EXCEPT ![p] =
                 [run EXCEPT !.pc = "check", !.idx = @ + 1, !.inserted = @ + 1,
                             !.rows = @ + 1,
                             !.pending = @ \cup
                                {[id |-> <<p, run.rows + 1>>,
                                  published_at |-> entry.published_at,
                                  full_text |-> entry.full_text,
                                  change_vs_previous |->
                                      change_vs_previous(prev, entry.full_text)]}]]
        /\ UNCHANGED <<comms_store, comm_starts, comm_others>>

\* the with block is left after the last entry: the transaction commits
CommCommit(p) ==
    LET run == comm_run[p]
    IN  /\ run.pc = "check"
        /\ run.idx > Len(run.entries)
        /\ comms_store' = comms_store \cup run.pending
        /\ comm_run' = [comm_run EXCEPT ![p] =
              [run EXCEPT !.pc = "idle", !.pending = {}]]
        /\ UNCHANGED <<comm_starts, comm_others>>

CommNext ==
    \/ \E p \in CommRuns : CommBegin(p)
    \/ \E p \in CommRuns : CommCheck(p)
    \/ \E p \in CommRuns : CommInsert(p)
    \/ \E p \in CommRuns : CommCommit(p)

(***************************************************************************)

(* ingestion/central_banks/fed.py: ingest_fomc_statements resolves the     *)
(* year pages, and for each page fetches the page, fetches every statement *)
(* it lists (fetch_statement_entries) and stores them (insert_comms).      *)
(* None of these calls is wrapped in a try block.                          *)
(***************************************************************************)
MaxStatementDate == 2
MaxFedRuns == 2

YearPages == {1, 2}
FedStatements == [published_at : 1..MaxStatementDate, full_text : StatementTexts]

\* the Fed site: the year pages in the order the press-release index links them,
\* each listing its statements; a statement is listed once
FedSites ==
    {site \in [YearPages -> SeqsUpTo(FedStatements, MaxStatementDate)] :
        \A p, q \in YearPages : \A i \in 1..Len(site[p]) : \A j \in 1..Len(site[q]) :
            (p # q \/ i # j) => site[p][i].published_at # site[q][j].published_at}

\* _resolve_statement_index_urls: the year pages of the index in document order,
\* or the one page given as --index-url
RunSources == {<<1, 2>>} \cup {<<p>> : p \in YearPages}

\* insert_comms(entries): the tables one call can leave when it commits
RECURSIVE InsertAllComms(_, _)
InsertAllComms(rows, entries) ==
    IF entries = << >> THEN {rows}
    ELSE UNION {InsertAllComms(r, Tail(entries)) : r \in InsertCommResults(rows, Head(entries))}

insert_comms(rows, entries) == InsertAllComms(rows, SortByDate(entries))

FedIdle ==
    fed = [site |-> [p \in YearPages |-> << >>], run |-> 0, source |-> << >>, page |-> 1,
           stmt |-> 1, entries |-> << >>, phase |-> "idle", failure |-> Null]

FedInit ==
    /\ central_bank_comms = {}
    /\ \E site \in FedSites :
          fed = [site |-> site, run |-> 1, source |-> << >>, page |-> 1,
                 stmt |-> 1, entries |-> << >>, phase |-> "resolve", failure |-> Null]

\* an uncaught exception leaves ingest_fomc_statements
FedRaises(kind) ==
    [fed EXCEPT !.phase = "raised",
                !.failure = Some([kind |-> kind, page |-> fed.page, stmt |-> fed.stmt])]

\* the loop of ingest_fomc_statements moves to its next page, or returns
FedNextPage ==
    IF fed.page = Len(fed.source)
    THEN [fed EXCEPT !.phase = "done"]
    ELSE [fed EXCEPT !.phase = "page", !.page = @ + 1]

\* _resolve_statement_index_urls(index_url)
ResolveIndex ==
    /\ fed.phase = "resolve"
    /\ \/ \E src \in RunSources :
             fed' = [fed EXCEPT !.source = src, !.page = 1, !.phase = "page"]
       \/ fed' = FedRaises("index")
    /\ UNCHANGED <<central_bank_comms, fed_others>>

\* index_html = fetch_url(page_url); a page that lists no statement is skipped
FetchYearPage ==
    /\ fed.phase = "page"
    /\ \/ fed' = IF fed.site[fed.source[fed.page]] = << >> THEN FedNextPage
                  ELSE [fed EXCEPT !.phase = "statements", !.stmt = 1, !.entries = << >>]
       \/ fed' = FedRaises("page")
    /\ UNCHANGED <<central_bank_comms, fed_others>>

\* one pass of the loop of fetch_statement_entries: fetcher(link.url) and the parse
FetchStatement ==
    /\ fed.phase = "statements"
    /\ \/ fed' = [fed EXCEPT
                     !.entries = Append(@, fed.site[fed.source[fed.page]][fed.stmt]),
                     !.stmt = @ + 1,
                     !.phase = IF fed.stmt = Len(fed.site[fed.source[fed.page]])
                               THEN "insert" ELSE "statements"]
       \/ fed' = FedRaises("statement")
    /\ UNCHANGED <<central_bank_comms, fed_others>>

\* inserted += insert_comms(entries): one transaction, rolled back on a store error
InsertComms ==
    /\ fed.phase = "insert"
    /\ \/ /\ central_bank_comms' \in insert_comms(central_bank_comms, fed.entries)
          /\ fed' = FedNextPage
       \/ /\ fed' = FedRaises("store")
          /\ UNCHANGED central_bank_comms
    /\ UNCHANGED fed_others

\* the ingestor is run again (the next scheduled job, or the command line)
NextFedRun ==
    /\ fed.phase \in {"done", "raised"}
    /\ fed.run < MaxFedRuns
    /\ fed' = [fed EXCEPT !.run = @ + 1, !.source = << >>, !.page = 1, !.stmt = 1,
                           !.entries = << >>, !.phase = "resolve", !.failure = Null]
    /\ UNCHANGED <<central_bank_comms, fed_others>>

FedNext ==
    \/ ResolveIndex
    \/ FetchYearPage
    \/ FetchStatement
    \/ InsertComms
    \/ NextFedRun

(***************************************************************************)
(* services/digests.py: get_or_create_digest, called by the scheduler's    *)
(* digest job, the API route and the Telegram command, each on its own    *)
(* connection; ingestors, scorers and the market-context job commit in     *)
(* between.                                                                *)
(***************************************************************************)
MaxDigestCalls == 3
MaxDataChanges == 2

DigestCallers == {"scheduler", "api"}
DigestDates == {1, 2}

\* what fetch_priority_events, fetch_metals_snapshot, fetch_economic_calendar,
\* fetch_active_theses and fetch_market_context_summary can find
Worlds ==
    [priority_events : {<< >>, <<"e1">>},
     metals_snapshot : {<<"gold">>},
     economic_calendar : {<<"CPI">>},
     active_theses : {<< >>, <<"t1">>},
     market_context : {Null, Some("low_vol")}]

\* _render_market_context_section
_render_market_context_section(market_context) ==
    IF market_context = Null THEN <<"MARKET CONTEXT", "- No market context available">>
    ELSE <<"MARKET CONTEXT", market_context[1]>>

\* a section of render_digest: its title, then "- None" or one line per item
RenderSection(title, items) ==
    <<title>> \o (IF items = << >> THEN <<"- None">> ELSE items)

\* render_digest: the briefing text, as its lines
render_digest(digest_date, w) ==
    <<"MERIDIAN DAILY BRIEFING">>
    \o _render_market_context_section(w.market_context)
    \o RenderSection("PRIORITY EVENTS", w.priority_events)
    \o RenderSection("METALS SNAPSHOT", w.metals_snapshot)
    \o RenderSection("TODAY'S CALENDAR", w.economic_calendar)
    \o RenderSection("THESIS UPDATES", w.active_theses)

\* build_digest_payload over what the fetches returned
build_digest_payload(digest_date, w) ==
    [digest_date |-> digest_date,
     priority_events |-> w.priority_events,
     metals_snapshot |-> w.metals_snapshot,
     economic_calendar |-> w.economic_calendar,
     active_theses |-> w.active_theses,
     full_digest |-> render_digest(digest_date, w),
     market_context |-> w.market_context]

\* the columns _cache_digest writes (market_context is not among them)
DigestRow(digest) ==
    [digest_date |-> digest.digest_date,
     priority_events |-> digest.priority_events,
     metals_snapshot |-> digest.metals_snapshot,
     economic_calendar |-> digest.economic_calendar,
     active_theses |-> digest.active_theses,
     full_digest |-> digest.full_digest]

\* the DailyDigest _load_cached_digest builds from a row: market_context keeps
\* its default None
CachedDigest(row) ==
    [digest_date |-> row.digest_date,
     priority_events |-> row.priority_events,
     metals_snapshot |-> row.metals_snapshot,
     economic_calendar |-> row.economic_calendar,
     active_theses |-> row.active_theses,
     full_digest |-> row.full_digest,
     market_context |-> Null]

\* _load_cached_digest(conn, digest_date)
_load_cached_digest(digests, digest_date) ==
    IF digests[digest_date] = Null THEN Null
    ELSE Some(CachedDigest(digests[digest_date][1]))

CacheHitNever(cached) == FALSE

\* `if cached is not None: return cached`
CacheHit(cached) == cached # Null

IdleCall ==
    [pc |-> "idle", digest_date |-> 1, row_existed |-> FALSE, row_seen |-> Null,
     result |-> Null, built |-> FALSE, wrote |-> FALSE]

DigestIdle ==
    /\ daily_digests = [d \in DigestDates |-> Null]
    /\ world = [priority_events |-> << >>, metals_snapshot |-> <<"gold">>,
                economic_calendar |-> <<"CPI">>, active_theses |-> << >>,
                market_context |-> Null]
    /\ digest_call = [c \in DigestCallers |-> IdleCall]
    /\ row_built = [d \in DigestDates |-> Null]
    /\ dig_ops = [calls |-> 0, changes |-> 0]

DigestInit ==
    /\ daily_digests = [d \in DigestDates |-> Null]
    /\ world \in Worlds
    /\ digest_call = [c \in DigestCallers |-> IdleCall]
    /\ row_built = [d \in DigestDates |-> Null]
    /\ dig_ops = [calls |-> 0, changes |-> 0]

\* events, scores, prices, theses or market-context rows are committed
DataChanges ==
    /\ dig_ops.changes < MaxDataChanges
    /\ \E w \in Worlds \ {world} : world' = w
    /\ dig_ops' = [dig_ops EXCEPT !.changes = @ + 1]
    /\ UNCHANGED <<daily_digests, digest_call, row_built, dig_others>>

\* a caller enters get_or_create_digest(digest_date)
DigestCall(c) ==
    /\ digest_call[c].pc \in {"idle", "returned"}
    /\ dig_ops.calls < MaxDigestCalls
    /\ \E d \in DigestDates :
          digest_call' = [digest_call EXCEPT ![c] =
              [IdleCall EXCEPT !.pc = "load", !.digest_date = d,
                               !.row_existed = (daily_digests[d] # Null)]]
    /\ dig_ops' = [dig_ops EXCEPT !.calls = @ + 1]
    /\ UNCHANGED <<daily_digests, world, row_built, dig_others>>

\* cached = _load_cached_digest(conn, digest_date); return it when there is one
DigestLoad(c) ==
    /\ digest_call[c].pc = "load"
    /\ LET cached == _load_cached_digest(daily_digests, digest_call[c].digest_date)
       IN  digest_call' = [digest_call EXCEPT ![c] =
               IF CacheHit(cached)
               THEN [@ EXCEPT !.pc = "returned", !.result = cached,
                              !.row_seen = daily_digests[digest_call[c].digest_date]]
               ELSE [@ EXCEPT !.pc = "build"]]
    /\ UNCHANGED <<daily_digests, world, row_built, dig_ops, dig_others>>

\* the fetches, build_digest_payload, _cache_digest (upsert on digest_date) and
\* the commit on leaving the connection block
DigestBuildAndCache(c) ==
    /\ digest_call[c].pc = "build"
    /\ LET d == digest_call[c].digest_date
           digest == build_digest_payload(d, world)
       IN  /\ daily_digests' = [daily_digests EXCEPT ![d] = Some(DigestRow(digest))]
           /\ row_built' = [row_built EXCEPT ![d] = Some(digest)]
           /\ digest_call' = [digest_call EXCEPT ![c] =
                   [@ EXCEPT !.pc = "returned", !.result = Some(digest),
                             !.built = TRUE, !.wrote = TRUE]]
    /\ UNCHANGED <<world, dig_ops, dig_others>>

DigestNext ==
    \/ DataChanges
    \/ \E c \in DigestCallers : DigestCall(c)
    \/ \E c \in DigestCallers : DigestLoad(c)
    \/ \E c \in DigestCallers : DigestBuildAndCache(c)

(***************************************************************************)
(* analysis/asset_discovery.py discover_assets_for_event over the channels *)
(* of analysis/transmission_channels.py.  A text is the set of channel     *)
(* keywords it contains; the texts drawn contain words of TextTerms only,  *)
(* never next to each other, and the event types drawn are those whose     *)
(* channels the texts can also hit, so the six channels below are all the  *)
(* channels the calls can match.                                           *)
(***************************************************************************)
DOLLAR_STRENGTH ==
    [channel_type |-> "dollar_strength",
     primary_assets |-> <<"UUP", "DX=F", "EURUSD=X">>,
     secondary_assets |-> <<"EEM", "VWO", "GLD", "SLV", "FXE", "FXY">>,
     keywords |-> {"dollar", "dxy", "fed", "hawkish", "safe haven", "flight to quality"}]

DOLLAR_WEAKNESS ==
    [channel_type |-> "dollar_weakness",
     primary_assets |-> <<"UDN", "DX=F", "GLD", "EEM">>,
     secondary_assets |-> <<"FXE", "FXA", "SLV", "COPX", "VWO">>,
     keywords |-> {"dollar weak", "fed dovish", "twin deficit", "inflation", "debasement"}]

FED_HAWKISH ==
    [channel_type |-> "fed_hawkish",
     primary_assets |-> <<"^TNX", "TLT", "IEF", "SHY">>,
     secondary_assets |-> <<"XLF", "KRE", "SPY", "QQQ", "ARKK">>,
     keywords |-> {"fed", "fomc", "hawkish", "rate hike", "tightening", "dot plot"}]

FED_DOVISH ==
    [channel_type |-> "fed_dovish",
     primary_assets |-> <<"TLT", "IEF", "GLD", "QQQ">>,
     secondary_assets |-> <<"ARKK", "XLK", "SMH", "EEM", "HYG">>,
     keywords |-> {"fed", "fomc", "dovish", "rate cut", "pause", "pivot"}]

INFLATION_SPIKE ==
    [channel_type |-> "inflation_spike",
     primary_assets |-> <<"TIP", "VTIP", "GLD", "DJP">>,
     secondary_assets |-> <<"XLE", "XLB", "PDBC", "XLP">>,
     keywords |-> {"inflation", "cpi", "ppi", "hot", "sticky", "expectations"}]

WAGE_PRESSURE ==
    [channel_type |-> "wage_pressure",
     primary_assets |-> <<"XLY", "XRT", "EATS">>,
     secondary_assets |-> <<"XLI", "XLF", "XLP">>,
     keywords |-> {"wage", "labor", "employment", "jobs", "hiring"}]

\* the channels of ALL_CHANNELS that the texts and event types drawn can match,
\* in the order of ALL_CHANNELS
ALL_CHANNELS ==
    <<DOLLAR_STRENGTH, DOLLAR_WEAKNESS, FED_HAWKISH, FED_DOVISH, INFLATION_SPIKE, WAGE_PRESSURE>>

\* EVENT_TYPE_TO_CHANNELS.get(event_type, ()), for the event types drawn
get_channels_for_event_type(event_type) ==
    CASE event_type = "monetary_policy" ->
             <<FED_HAWKISH, FED_DOVISH, DOLLAR_STRENGTH, DOLLAR_WEAKNESS>>
      [] event_type = "inflation" -> <<INFLATION_SPIKE, FED_HAWKISH, WAGE_PRESSURE>>
      [] OTHER -> << >>

TextTerms == {"fed", "fomc", "hawkish", "dovish", "inflation"}
DiscEventTypes == {"", "monetary_policy", "inflation", "not_a_type"}
DiscMaxChannels == {2, 5}

\* the channels with at least one keyword in the text, most keywords first;
\* list.sort is stable, so equal counts stay in the order of ALL_CHANNELS
match_channels_by_keywords(text) ==
    LET count(c) == Cardinality(c.keywords \cap text)
        matches == SelectSeq(ALL_CHANNELS, LAMBDA c : count(c) > 0)
        \* position of matches[i] after the sort
        rank(i) == Cardinality({j \in 1..Len(matches) :
                       \/ count(matches[j]) > count(matches[i])
                       \/ count(matches[j]) = count(matches[i]) /\ j <= i})
    IN  [k \in 1..Len(matches) |-> matches[CHOOSE i \in 1..Len(matches) : rank(i) = k]]

\* for x in xs: if x not in seen(acc) and x not in excluded: acc.append(x)
RECURSIVE AppendUnseen(_, _, _)
AppendUnseen(acc, xs, excluded) ==
    IF xs = << >> THEN acc
    ELSE LET x == Head(xs)
             seen == {acc[i] : i \in 1..Len(acc)}
         IN  AppendUnseen(IF x \in seen \/ x \in excluded THEN acc ELSE Append(acc, x),
                          Tail(xs), excluded)

\* steps 3 (combine, one channel per channel type) and 4 (extract the assets,
\* channel by channel) of discover_assets_for_event
RECURSIVE ExtractAssets(_, _, _)
ExtractAssets(result, channels, include_secondary) ==
    IF channels = << >> THEN result
    ELSE LET channel == Head(channels)
             primary == AppendUnseen(result.primary_assets, channel.primary_assets, {})
             primary_seen == {primary[i] : i \in 1..Len(primary)}
             secondary ==
                 IF include_secondary
                 THEN AppendUnseen(result.secondary_assets, channel.secondary_assets, primary_seen)
                 ELSE result.secondary_assets
         IN  ExtractAssets([result EXCEPT !.primary_assets = primary,
                                          !.secondary_assets = secondary],
                           Tail(channels), include_secondary)

discover_assets_for_event(headline, event_type, full_text, max_channels, include_secondary) ==
    LET search_text == headline \cup full_text
        keyword_matched == match_channels_by_keywords(search_text)
        type_matched == IF event_type # "" THEN get_channels_for_event_type(event_type) ELSE << >>
        both == keyword_matched \o type_matched
        combined == SelectSeq(
            [i \in 1..Len(both) |-> [pos |-> i, channel |-> both[i]]],
            LAMBDA e : \A j \in 1..(e.pos - 1) : both[j].channel_type # e.channel.channel_type)
        channels == [i \in 1..Min(Len(combined), max_channels) |-> combined[i].channel]
    IN  ExtractAssets([channels |-> [i \in 1..Len(channels) |-> channels[i].channel_type],
                       primary_assets |-> << >>, secondary_assets |-> << >>],
                      channels, include_secondary)

DiscIdle ==
    disc = [headline |-> {}, full_text |-> {}, event_type |-> "", max_channels |-> 5,
            include_secondary |-> TRUE, result |-> Null]

\* the arguments of a call
DiscInit ==
    \E headline \in SUBSET TextTerms, full_text \in {{}, {"fed"}}, event_type \in DiscEventTypes,
       max_channels \in DiscMaxChannels, include_secondary \in BOOLEAN :
        disc = [headline |-> headline, full_text |-> full_text, event_type |-> event_type,
                max_channels |-> max_channels, include_secondary |-> include_secondary,
                result |-> Null]

\* the call returns its DiscoveryResult
DiscoverAssets ==
    /\ disc.result = Null
    /\ disc' = [disc EXCEPT !.result =
           Some(discover_assets_for_event(disc.headline, disc.event_type, disc.full_text,
                                          disc.max_channels, disc.include_secondary))]
    /\ UNCHANGED disc_others

DiscNext ==
    \/ DiscoverAssets

(***************************************************************************)

(* Specifications and claims                                               *)
(***************************************************************************)
InitEvents == EventsInit /\ SchedIdle /\ TablesIdle /\ IngestIdle /\ RssIdle /\ FedIdle /\ DigestIdle /\ FetchIdle /\ PollIdle /\ ProcIdle /\ PassIdle /\ DiscIdle /\ ScoreIdle /\ MarketIdle /\ ConvictionIdle /\ TransmissionIdle /\ CalendarIdle /\ LifeIdle /\ QuietIdle /\ CommIdle
SpecEvents == InitEvents /\ [][EventsNext]_vars

\* C1: every stored MacroEvent has priority_flag = true if and only if its
\* significance_score is set and is >= 65 (an unscored event has the flag false).
C1_PriorityFlagIffScore ==
    \A r \in macro_events :
        r.priority_flag <=>
            (r.significance_score # Null /\ r.significance_score[1] >= PRIORITY_THRESHOLD)

\* a scored priority event at the threshold and a scored event one point below
\* it are stored together
C1_Witness ==
    /\ \E r \in macro_events : r.significance_score = Some(PRIORITY_THRESHOLD) /\ r.priority_flag
    /\ \E r \in macro_events :
          r.significance_score = Some(PRIORITY_THRESHOLD - 1) /\ ~r.priority_flag

InitPass ==
    /\ PassInit /\ scorer = [p \in Scorers |-> [pc |-> "idle", events |-> {}]] /\ ev_ops = 0 /\ DiscIdle /\ ScoreIdle /\ MarketIdle /\ ConvictionIdle /\ TransmissionIdle /\ CalendarIdle /\ LifeIdle /\ QuietIdle /\ CommIdle
    /\ SchedIdle /\ TablesIdle /\ IngestIdle /\ RssIdle /\ FedIdle /\ DigestIdle
    /\ FetchIdle /\ PollIdle /\ ProcIdle
SpecPass == InitPass /\ [][PassNext]_vars

UnscoredKeys(table) == {EventKey(r) : r \in {x \in table : x.significance_score = Null}}
SeqRange(s) == {s[i] : i \in 1..Len(s)}
OldestFirst(events) ==
    \A i, j \in 1..Len(events) : i < j => events[i][3] <= events[j][3] /\ events[i] # events[j]

\* C18: a scoring pass without a limit selects exactly the events whose
\* significance_score is null, oldest published_at first, and when it is not a
\* dry run writes a score to each of them, after which none of them is
\* unscored (a repeated pass finds nothing to write); a dry-run pass leaves the
\* table as it is; and no step of any pass changes an event that has a score.
C18_PassStep ==
    /\ \A r \in macro_events : r.significance_score # Null => r \in macro_events'
    /\ \A p \in Scorers :
          /\ pass[p].pc = "idle" /\ pass'[p].pc = "fetched" =>
                /\ SeqRange(pass'[p].events) = UnscoredKeys(macro_events)
                /\ OldestFirst(pass'[p].events)
          /\ pass[p].pc = "idle" /\ Len(pass'[p].log) > Len(pass[p].log) =>
                UnscoredKeys(macro_events) = {} /\ macro_events' = macro_events
          /\ pass[p].pc = "fetched" /\ pass'[p].pc = "idle" /\ pass[p].dry_run =>
                macro_events' = macro_events
          /\ pass[p].pc = "fetched" /\ pass'[p].pc = "idle" /\ ~pass[p].dry_run =>
                /\ UnscoredKeys(macro_events') = UnscoredKeys(macro_events) \ SeqRange(pass[p].events)
                /\ \A r \in macro_events :
                      IF EventKey(r) \in SeqRange(pass[p].events)
                      THEN \E w \in macro_events' :
                              /\ EventKey(w) = EventKey(r)
                              /\ w.significance_score =
                                     Some(score_event(RowToMacroEvent(r)).total_score)
                      ELSE r \in macro_events'
C18_ScoringPassSelectsUnscoredOnly == [][C18_PassStep]_vars

\* one process ran a dry-run pass over two unscored events of different dates,
\* then a pass that scored them, oldest first, then a pass that found nothing
C18_Witness ==
    \E p \in Scorers : \E a, b \in UnscoredKeys({NewEventRow(e) : e \in PassEntries}) :
        /\ a[3] < b[3]
        /\ Len(pass[p].log) = 3
        /\ pass[p].log[1] = [dry_run |-> TRUE, selected |-> <<a, b>>, writes |-> 0]
        /\ pass[p].log[2] = [dry_run |-> FALSE, selected |-> <<a, b>>, writes |-> 2]
        /\ pass[p].log[3].selected = << >>

InitSched == SchedInit /\ EventsIdle /\ TablesIdle /\ IngestIdle /\ RssIdle /\ FedIdle /\ DigestIdle /\ FetchIdle /\ PollIdle /\ ProcIdle /\ PassIdle /\ DiscIdle /\ ScoreIdle /\ MarketIdle /\ ConvictionIdle /\ TransmissionIdle /\ CalendarIdle /\ LifeIdle /\ QuietIdle /\ CommIdle
SpecSched == InitSched /\ [][SchedNext]_vars

ErrorResult(outcome) == [raised |-> FALSE, status |-> "error", error |-> outcome]

\* C2: whatever exception the wrapped work raises, the job wrapper returns a dict
\* with status "error" and error = the exception text instead of raising; and the
\* initial run calls all six jobs, in order, whichever of them failed.
C2_WrappersCatchAndInitialRunCompletes ==
    /\ \A i \in 1..Len(init_log) :
          /\ init_log[i].job = InitialJobs[i]
          /\ init_log[i].outcome # "ok" => init_log[i].call = ErrorResult(init_log[i].outcome)
    /\ \A j \in ScheduledJobs :
          (last_run[j] # Null /\ last_run[j][1].outcome # "ok")
              => last_run[j][1].call = ErrorResult(last_run[j][1].outcome)
    /\ (sched_phase = "started" /\ run_initial) => Len(init_log) = Len(InitialJobs)

\* the first job of the initial run failed, the run went on through all six jobs
\* and the scheduler started; a scheduled run failed as well
C2_Witness ==
    /\ sched_phase = "started" /\ run_initial
    /\ Len(init_log) = Len(InitialJobs)
    /\ init_log[1].outcome = "Connection failed"
    /\ init_log[2].outcome = "Database unavailable"
    /\ \E j \in ScheduledJobs : last_run[j] # Null /\ last_run[j][1].outcome # "ok"

\* C3: two runs of the job with the same id are never in progress at the same time
C3_SameJobNeverOverlaps == \A j \in ScheduledJobs : RunsInProgress(j) <= 1

\* a trigger of a job fired while its previous run had not returned, and was skipped
C3_Witness == \E j \in ScheduledJobs : j \in missed /\ job_instances[j] = 1

InitProc ==
    /\ ProcInit /\ EventsIdle /\ SchedIdle /\ TablesIdle /\ IngestIdle /\ RssIdle /\ FedIdle /\ PassIdle /\ DiscIdle /\ ScoreIdle /\ MarketIdle /\ ConvictionIdle /\ TransmissionIdle /\ CalendarIdle /\ LifeIdle /\ QuietIdle /\ CommIdle
    /\ DigestIdle /\ FetchIdle /\ PollIdle
SpecProc == InitProc /\ [][ProcNext]_vars

\* the main thread and the pool's workers keep running: a call that is not
\* hung returns, the loop goes on, the scheduler is started, the process exits
\* when nothing holds it.  Triggers, hangs and signals come from outside.
SpecProcFair ==
    /\ SpecProc
    /\ WF_vars(RunInitialJob) /\ WF_vars(InitialJobReturns) /\ WF_vars(StartScheduler)
    /\ WF_vars(\E j \in ScheduledJobs : PoolJobReturns(j))
    /\ WF_vars(ProcessExits)

\* C16: after SIGINT or SIGTERM, whenever it arrives, no new job run is started,
\* and when the process has exited no job run was cut short: every run that
\* was in progress had returned.
C16_SignalStopsGracefully ==
    /\ proc.signal # "" => proc.started_after_signal = {}
    /\ proc.phase = "exited" => proc.cut_short = {}

\* SIGTERM arrived during the initial run of the RSS job: the process is gone
\* and the run never returned
C16_Witness ==
    /\ proc.phase = "exited" /\ proc.signal = "SIGTERM"
    /\ proc.cut_short = {JOB_RSS}

\* C17: a run that hangs holds up only its own job: whenever some job is hung,
\* at startup or later, the scheduler gets to fire the triggers of the other
\* jobs (it is started, unless a signal ends the process first).
C17_HangHoldsUpOnlyItsOwnJob ==
    (proc.hung # {}) ~> (proc.phase = "started" \/ proc.signal # "")

\* the initial run of the RSS job hangs: the scheduler is not started
C17_Witness ==
    /\ proc.phase = "initial" /\ proc.main_job = JOB_RSS /\ JOB_RSS \in proc.hung

InitIngest == IngestInit /\ EventsIdle /\ SchedIdle /\ RssIdle /\ FedIdle /\ DigestIdle /\ FetchIdle /\ PollIdle /\ ProcIdle /\ PassIdle /\ DiscIdle /\ ScoreIdle /\ MarketIdle /\ ConvictionIdle /\ TransmissionIdle /\ CalendarIdle /\ LifeIdle /\ QuietIdle /\ CommIdle
SpecIngest == InitIngest /\ [][IngestNext]_vars

\* row keys of a table of the given kind
KeyOfRecord(kind, rec) ==
    CASE kind = "rss" -> EventKey(rec)
      [] kind = "fed" -> rec.published_at
      [] OTHER -> rec.key
KeysStored(kind, table) == {KeyOfRecord(kind, r) : r \in table}

\* C4: running an ingestor a second time on the same input creates zero new rows
\* and leaves the fields of every stored row unchanged.
C4_SecondRunChangesNothing ==
    (ing.done /\ ~ing.failed) => TableOf(ing.kind) = snap_first

\* a second run over an input of two units that stored at least two rows has ended
C4_Witness ==
    /\ ing.done /\ ~ing.failed /\ ing.input # << >>
    /\ Cardinality(snap_first) >= 2
    /\ \A u \in 1..Len(ing.input) : Len(ing.input[u]) = MaxRecs

\* C5 (as stated): when a batch fails, every record it had already written before
\* that point remains stored.
C5_WrittenRecordsSurviveFailure ==
    fail_info # Null =>
        \A rec \in fail_info[1].written :
            KeyOfRecord(fail_info[1].kind, rec) \in KeysStored(fail_info[1].kind, fail_info[1].after)

\* C5 (what the code guarantees instead): when a batch fails, the table is exactly what it was when the
\* batch began: no record of the failed batch is stored, and every row committed
\* by an earlier batch is stored unaltered.
C5_FailedBatchIsRolledBack ==
    fail_info # Null => fail_info[1].after = fail_info[1].before

\* a batch failed after it had written a record, and an earlier batch had
\* committed rows
C5_Witness ==
    /\ fail_info # Null
    /\ fail_info[1].written # {}
    /\ fail_info[1].before # {}

InitRss == RssInit /\ EventsIdle /\ SchedIdle /\ TablesIdle /\ IngestIdle /\ FedIdle /\ DigestIdle /\ FetchIdle /\ PollIdle /\ ProcIdle /\ PassIdle /\ DiscIdle /\ ScoreIdle /\ MarketIdle /\ ConvictionIdle /\ TransmissionIdle /\ CalendarIdle /\ LifeIdle /\ QuietIdle /\ CommIdle
SpecRss == InitRss /\ [][RssNext]_vars

FeedSourcesOf(feeds) == {feeds[i] : i \in 1..Len(feeds)}

\* C6: in an RSS batch run, whichever feeds fail, every feed of the batch is
\* attempted in order, the returned map has one entry per feed with count 0 for
\* each failed feed, and no feed failure aborts the batch.
C6_EveryFeedAttemptedFailuresCountZero ==
    /\ rss.phase # "raised"
    /\ rss.attempted = SubSeq(rss.feeds, 1, Len(rss.attempted))
    /\ rss.phase = "done" =>
          /\ rss.attempted = rss.feeds
          /\ DOMAIN rss.results = FeedSourcesOf(rss.feeds)
          /\ \A i \in rss.failed : rss.results[rss.feeds[i]] = 0

\* a batch of MaxFeeds feeds has returned; its first two feeds failed and a
\* later feed stored entries
C6_Witness ==
    /\ rss.phase = "done"
    /\ Len(rss.feeds) = MaxFeeds
    /\ {1, 2} \subseteq rss.failed
    /\ \E s \in DOMAIN rss.results : rss.results[s] > 0

\* feeds among the first i of the batch that ended in a RateLimitError
RateLimitedUpTo(i) == Cardinality({j \in rss.rate_limited : j <= i})
DelayAfter(k) == Min(MIN_DELAY_BETWEEN_FEEDS * Pow(2, k), MAX_FEED_DELAY)

\* C14: within one batch the base inter-feed delay after k rate-limited feeds
\* is min(initial * 2^k, 30): only a RateLimitError raises it (another failure
\* leaves it alone), it never decreases, and the sleep after each feed but the
\* last uses the delay as raised by every rate-limited feed so far.
C14_DelayDoublesPerRateLimitedFeed ==
    /\ rss.delay_between_feeds = DelayAfter(Cardinality(rss.rate_limited))
    /\ rss.rate_limited \subseteq rss.failed
    /\ Len(rss.sleeps) = Min(rss.idx, Len(rss.feeds)) - 1 \/ rss.feeds = << >>
    /\ \A i \in 1..Len(rss.sleeps) :
          /\ rss.sleeps[i] = DelayAfter(RateLimitedUpTo(i))
          /\ i > 1 => rss.sleeps[i - 1] <= rss.sleeps[i]

\* five feeds were rate-limited: the delay went 2, 4, 8, 16 and is capped at 30
C14_Witness ==
    /\ rss.rate_limited = 1..5
    /\ SubSeq(rss.sleeps, 1, 4) = <<2, 4, 8, 16>>
    /\ rss.delay_between_feeds = MAX_FEED_DELAY

InitFed ==
    /\ FedInit /\ EventsIdle /\ SchedIdle /\ IngestIdle /\ RssIdle /\ DigestIdle /\ FetchIdle /\ PollIdle /\ ProcIdle /\ PassIdle /\ DiscIdle /\ ScoreIdle /\ MarketIdle /\ ConvictionIdle /\ TransmissionIdle /\ CalendarIdle /\ LifeIdle /\ QuietIdle /\ CommIdle
    /\ economic_events = {} /\ daily_prices = {}
SpecFed == InitFed /\ [][FedNext]_vars

StoredCommDates == {r.published_at : r \in central_bank_comms}

\* the failure of the run, if any, is not on statement i of the run's k-th page,
\* on the fetch of that page or on the store of that page's statements
NotHitByFailure(k, i) ==
    \/ fed.failure = Null
    \/ fed.failure[1].kind = "statement" /\ <<fed.failure[1].page, fed.failure[1].stmt>> # <<k, i>>
    \/ fed.failure[1].kind \in {"page", "store"} /\ fed.failure[1].page # k

\* C7: a fetch, parse or store failure on one source (one year page) or one
\* record (one statement) never prevents the other sources and records of the
\* same run from being ingested.
C7_FailureNeverPreventsOthers ==
    fed.phase \in {"done", "raised"} =>
        \A k \in 1..Len(fed.source) : \A i \in 1..Len(fed.site[fed.source[k]]) :
            NotHitByFailure(k, i) =>
                fed.site[fed.source[k]][i].published_at \in StoredCommDates

\* a run over both year pages ended on a failure at its first page while its
\* second page lists a statement
C7_Witness ==
    /\ fed.phase = "raised"
    /\ Len(fed.source) = 2
    /\ fed.failure[1].kind \in {"page", "statement"}
    /\ fed.failure[1].page = 1
    /\ fed.site[fed.source[2]] # << >>

\* C10: after any sequence of ingest runs, every stored comm has
\* change_vs_previous = null exactly when no stored comm has an earlier
\* published_at, and otherwise holds the unified diff against the stored comm
\* with the latest earlier published_at (empty when the texts are identical).
C10_ChangeVsPreviousMatchesStore ==
    \A r \in central_bank_comms :
        r.change_vs_previous \in
            {change_vs_previous(prev, r.full_text) :
                prev \in PreviousCommTexts(central_bank_comms, r.published_at)}

\* two comms are stored and the later one holds a diff against the earlier
C10_Witness ==
    \E r, q \in central_bank_comms :
        /\ q.published_at < r.published_at
        /\ r.change_vs_previous = change_vs_previous(Some(q.full_text), r.full_text)

InitDigest ==
    DigestInit /\ EventsIdle /\ SchedIdle /\ TablesIdle /\ IngestIdle /\ RssIdle /\ FedIdle /\ FetchIdle /\ PollIdle /\ ProcIdle /\ PassIdle /\ DiscIdle /\ ScoreIdle /\ MarketIdle /\ ConvictionIdle /\ TransmissionIdle /\ CalendarIdle /\ LifeIdle /\ QuietIdle /\ CommIdle
SpecDigest == InitDigest /\ [][DigestNext]_vars

\* C8: once a digest row exists for a date, every later get_or_create_digest
\* call for that date returns the stored row without rebuilding or rewriting
\* it, whatever was committed in between.
C8_CachedDigestReturnedWithoutRebuild ==
    \A c \in DigestCallers :
        digest_call[c].row_existed =>
            /\ digest_call[c].pc # "build"
            /\ ~digest_call[c].built
            /\ ~digest_call[c].wrote
            /\ digest_call[c].pc = "returned" =>
                  /\ digest_call[c].row_seen # Null
                  /\ digest_call[c].result = Some(CachedDigest(digest_call[c].row_seen[1]))

\* a call that began when the row existed has returned the stored briefing
\* although the store now holds other data than the row was built from
C8_Witness ==
    \E c \in DigestCallers :
        /\ digest_call[c].row_existed
        /\ digest_call[c].pc = "returned"
        /\ digest_call[c].result[1].full_digest
              # render_digest(digest_call[c].digest_date, world)

\* the fields of a digest the callers see
SameDigest(a, b) ==
    /\ a.full_digest = b.full_digest
    /\ a.priority_events = b.priority_events
    /\ a.metals_snapshot = b.metals_snapshot
    /\ a.economic_calendar = b.economic_calendar
    /\ a.active_theses = b.active_theses
    /\ a.market_context = b.market_context

InitFetch ==
    FetchInit /\ EventsIdle /\ SchedIdle /\ TablesIdle /\ IngestIdle /\ RssIdle /\ FedIdle /\ DigestIdle /\ PollIdle /\ ProcIdle /\ PassIdle /\ DiscIdle /\ ScoreIdle /\ MarketIdle /\ ConvictionIdle /\ TransmissionIdle /\ CalendarIdle /\ LifeIdle /\ QuietIdle /\ CommIdle
SpecFetch == InitFetch /\ [][FetchNext]_vars

LastResponse == fetch.responses[Len(fetch.responses)]
IsRateLimited(resp) == resp.kind = "HTTPError" /\ resp.code \in RATE_LIMIT_CODES

\* C11: whatever the server answers and whatever the network does, one call of
\* fetch_feed makes at most three requests and at most two waits, each bounded,
\* and after its third request it has ended: it returns the body exactly when
\* its last request succeeded, and otherwise raises, RateLimitError exactly
\* when its last failure was a status of {403, 429, 503}.
C11_AtMostThreeAttemptsThenEnds ==
    /\ Len(fetch.responses) <= MAX_RETRIES
    /\ Len(fetch.sleeps) <= MAX_RETRIES - 1
    /\ \A i \in 1..Len(fetch.sleeps) : fetch.sleeps[i] <= BACKOFF_MAX_DELAY + BACKOFF_MAX_DELAY \div 2
    /\ Len(fetch.responses) = MAX_RETRIES => fetch.pc \in {"handle", "returned", "raised"}
    /\ fetch.pc = "returned" => LastResponse.kind = "ok"
    /\ fetch.pc = "raised" =>
          /\ LastResponse.kind # "ok"
          /\ fetch.exc = "RateLimitError" <=> IsRateLimited(LastResponse)

C11_Witness ==
    /\ fetch.pc = "raised" /\ fetch.exc = "RateLimitError"
    /\ Len(fetch.responses) = MAX_RETRIES
    /\ fetch.responses[1].kind = "URLError" /\ fetch.responses[2].code = 500

\* response i of the call has been dealt with by its except clause
Handled(i) == i < Len(fetch.responses) \/ fetch.pc # "handle"
\* after response i the call slept and went on to another request
Retried(i) == Len(fetch.sleeps) >= i
OtherStatus(resp) ==
    resp.kind = "HTTPError" /\ resp.code < 500 /\ resp.code \notin RATE_LIMIT_CODES
FailsAtOnce(i) ==
    /\ ~Retried(i) /\ i = Len(fetch.responses) /\ Len(fetch.sleeps) = i - 1
    /\ fetch.pc = "raised" /\ fetch.exc = "HTTPError"

\* C12 (as stated): a failure that leaves an attempt is retried exactly when it
\* is a transient network error (URLError, timeout), a 5xx status or a status of
\* {403, 429, 503}; any other 4xx status ends the call at once, with no sleep
\* and no further request.
C12_RetriesExactlyTransientAndRateLimit ==
    \A i \in 1..Len(fetch.responses) :
        Handled(i) /\ fetch.responses[i].kind # "ok" =>
            /\ i < MAX_RETRIES =>
                  (Retried(i) <=>
                      \/ fetch.responses[i].kind \in {"URLError", "TimeoutError"}
                      \/ /\ fetch.responses[i].kind = "HTTPError"
                         /\ fetch.responses[i].code >= 500 \/ fetch.responses[i].code \in RATE_LIMIT_CODES)
            /\ OtherStatus(fetch.responses[i]) => FailsAtOnce(i)

\* C12 (amended): a failure that leaves an attempt is retried exactly when it is
\* not an HTTP status below 500 outside {403, 429, 503}: every exception of the
\* request other than such a status is retried, a network error or not; such a
\* status ends the call at once, with no sleep and no further request.
C12_RetriesAllButOtherStatuses ==
    \A i \in 1..Len(fetch.responses) :
        Handled(i) /\ fetch.responses[i].kind # "ok" =>
            /\ i < MAX_RETRIES => (Retried(i) <=> ~OtherStatus(fetch.responses[i]))
            /\ OtherStatus(fetch.responses[i]) => FailsAtOnce(i)

C12_Witness ==
    /\ Len(fetch.responses) = 2 /\ Len(fetch.sleeps) = 1
    /\ fetch.responses[1].kind = "ValueError"
    /\ fetch.responses[2].code = 404
    /\ fetch.pc = "raised"

\* C13: when a rate-limited response (403, 429 or 503) that is retried carries
\* a Retry-After header of N seconds, as a number or as an HTTP date, the wait
\* before the next attempt is at least N seconds, N capped at 60 s.
C13_WaitsAtLeastRetryAfter ==
    \A i \in 1..Len(fetch.sleeps) :
        LET hint == _parse_retry_after(fetch.responses[i].retry_after)
        IN  IsRateLimited(fetch.responses[i]) /\ hint # Null =>
                fetch.sleeps[i] >= Min(hint[1], BACKOFF_MAX_DELAY)

\* a 429 with Retry-After: 10 was followed by a wait of 5 s
C13_Witness ==
    /\ Len(fetch.sleeps) >= 1
    /\ fetch.responses[1].code = 429
    /\ fetch.responses[1].retry_after = [form |-> "seconds", value |-> 10]
    /\ fetch.sleeps[1] = 5000

InitPoll ==
    /\ PollInit /\ EventsIdle /\ SchedIdle /\ TablesIdle /\ IngestIdle /\ RssIdle /\ FedIdle /\ ProcIdle /\ PassIdle /\ DiscIdle /\ ScoreIdle /\ MarketIdle /\ ConvictionIdle /\ TransmissionIdle /\ CalendarIdle /\ LifeIdle /\ QuietIdle /\ CommIdle
    /\ DigestIdle /\ FetchIdle
SpecPoll == InitPoll /\ [][PollNext]_vars

\* C15: in the poll loop with interval > 0, when the sleeps of a cycle are over,
\* a backoff sleep was made exactly if the cycle and the n - 1 >= 0 cycles
\* before it all had every feed return zero events, and it lasted
\* min(5 * 2^(n-1), 300) s plus at most 20% of that; a cycle in which a feed
\* returned events resets the count, and no backoff sleep follows it.
C15_BackoffAfterAllZeroCycles ==
    poll.pc = "ingest" /\ poll.cycles > 0 =>
        LET n == poll.zero_run
            base == Min(5000 * Pow(2, n - 1), 300000)
        IN  /\ n >= 1 => /\ poll.slept # Null
                         /\ base <= poll.slept[1]
                         /\ 5 * poll.slept[1] <= 6 * base
            /\ n = 0 => poll.slept = Null /\ poll.consecutive_failures = 0

\* seven all-zero cycles in a row: the backoff has reached its cap of 300 s
C15_Witness ==
    /\ poll.pc = "ingest" /\ poll.zero_run = 7
    /\ poll.slept # Null /\ poll.slept[1] > 300000

InitDisc ==
    /\ DiscInit /\ EventsIdle /\ SchedIdle /\ TablesIdle /\ IngestIdle /\ RssIdle /\ FedIdle /\ ScoreIdle /\ MarketIdle /\ ConvictionIdle /\ TransmissionIdle /\ CalendarIdle /\ LifeIdle /\ QuietIdle /\ CommIdle
    /\ DigestIdle /\ FetchIdle /\ PollIdle /\ ProcIdle /\ PassIdle
SpecDisc == InitDisc /\ [][DiscNext]_vars

\* C19: whatever the headline, the full text and the event type, no asset of the
\* DiscoveryResult is in both primary_assets and secondary_assets.
C19_PrimaryAndSecondaryDisjoint ==
    disc.result # Null =>
        SeqRange(disc.result[1].primary_assets) \cap SeqRange(disc.result[1].secondary_assets) = {}

\* a headline with "fed", "hawkish" and "fomc" and no event type: FED_HAWKISH is
\* matched before FED_DOVISH, and QQQ is returned as a secondary asset (of the
\* first) and as a primary asset (of the second)
C19_Witness ==
    /\ disc.headline = {"fed", "fomc", "hawkish"} /\ disc.full_text = {} /\ disc.event_type = ""
    /\ disc.result # Null
    /\ disc.result[1].channels = <<"fed_hawkish", "dollar_strength", "fed_dovish">>
    /\ "QQQ" \in SeqRange(disc.result[1].primary_assets)
    /\ "QQQ" \in SeqRange(disc.result[1].secondary_assets)

InitScore ==
    /\ ScoreInit /\ EventsIdle /\ SchedIdle /\ TablesIdle /\ IngestIdle /\ RssIdle /\ FedIdle /\ MarketIdle /\ ConvictionIdle /\ TransmissionIdle /\ CalendarIdle /\ LifeIdle /\ QuietIdle /\ CommIdle
    /\ DigestIdle /\ FetchIdle /\ PollIdle /\ ProcIdle /\ PassIdle /\ DiscIdle
SpecScore == InitScore /\ [][ScoreNext]_vars

\* the events of tests/test_significance_scoring.py
StructuredInputsEvent ==
    [source |-> "reuters", text |-> {"monetary", "macro"}, event_type |-> "monetary_policy",
     regions |-> {"US"}, entities |-> {"federal reserve"}]
InferredTypeEvent ==
    [source |-> "ap", text |-> {"monetary", "macro"}, event_type |-> "",
     regions |-> {}, entities |-> {}]

\* C20: for every event each of the four components is an integer of 0..100 and
\* the total is the integer of 0..100 nearest to
\* (structural*35 + transmission*30 + historical*20 + attention*15) / 100, a
\* half rounded up; components 88/95/70/60 give 82 and 75/90/65/55 give 75.
C20_TotalIsWeightedSumRoundedHalfUp ==
    sc.scored # Null =>
        LET c == sc.scored[1].components
            total == sc.scored[1].total_score
            raw == c.structural * 35 + c.transmission * 30 + c.historical * 20 + c.attention * 15
        IN  /\ \A x \in {c.structural, c.transmission, c.historical, c.attention} : x \in 0..100
            /\ total \in 0..100
            /\ 2 * raw - 100 < 200 * total /\ 200 * total <= 2 * raw + 100
            /\ sc.event = StructuredInputsEvent =>
                  /\ c = [structural |-> 88, transmission |-> 95, historical |-> 70, attention |-> 60]
                  /\ total = 82
            /\ sc.event = InferredTypeEvent =>
                  /\ c = [structural |-> 75, transmission |-> 90, historical |-> 65, attention |-> 55]
                  /\ total = 75

\* the second event of the tests is scored: its weighted sum is 74.5, its total 75
C20_Witness ==
    /\ sc.event = InferredTypeEvent
    /\ sc.scored # Null /\ sc.scored[1].total_score = 75


InitMarket ==
    /\ MarketInit /\ EventsIdle /\ SchedIdle /\ TablesIdle /\ IngestIdle /\ RssIdle /\ FedIdle /\ ConvictionIdle /\ TransmissionIdle /\ CalendarIdle /\ LifeIdle /\ QuietIdle /\ CommIdle
    /\ DigestIdle /\ FetchIdle /\ PollIdle /\ ProcIdle /\ PassIdle /\ DiscIdle /\ ScoreIdle
SpecMarket == InitMarket /\ [][MarketNext]_vars

\* the published multiplier tables, "unknown" counting as 1.0 (in hundredths)
PublishedVolMult(regime) ==
    CASE regime \in {"calm", "normal", "unknown"} -> 100
      [] regime = "elevated" -> 75
      [] regime = "fear" -> 50
      [] regime = "crisis" -> 25
PublishedCreditMult(regime) ==
    CASE regime \in {"tight", "normal", "unknown"} -> 100
      [] regime = "wide" -> 75
      [] regime = "stressed" -> 50
      [] regime = "crisis" -> 25

\* C21: for every combination of volatility and credit regimes, "unknown"
\* included, the position-sizing multiplier of the record is the smaller of
\* the two published multipliers with "unknown" counting as 1.0, and lies in
\* [0.25, 1.0].
C21_MultiplierIsMinOfPublishedTables ==
    (mc.pc = "built" /\ mc.record # Null) =>
        LET m == mc.record[1].suggested_size_multiplier
            v == PublishedVolMult(mc.regimes.volatility_regime)
            c == PublishedCreditMult(mc.regimes.credit_regime)
        IN  /\ m \in {v, c} /\ m <= v /\ m <= c
            /\ 25 <= m /\ m <= 100

\* a fear / wide record is built with multiplier 0.50, as is a record with a
\* missing VIX
C21_Witness ==
    /\ mc.pc = "built"
    /\ mc.regimes.volatility_regime = "unknown" /\ mc.regimes.credit_regime = "stressed"
    /\ mc.record[1].suggested_size_multiplier = 50

\* the regime a level falls in when every threshold is an inclusive lower bound
RegimeOfVix(v) ==
    IF v >= 4000 THEN "crisis" ELSE IF v >= 3000 THEN "fear" ELSE IF v >= 2000 THEN "elevated"
    ELSE IF v >= 1500 THEN "normal" ELSE "calm"
RegimeOfHy(v) ==
    IF v >= 80000 THEN "crisis" ELSE IF v >= 50000 THEN "stressed" ELSE IF v >= 40000 THEN "wide"
    ELSE IF v >= 30000 THEN "normal" ELSE "tight"
RegimeOfSpread(v) ==
    IF v < 0 THEN "inverted" ELSE IF v < 25 THEN "flat" ELSE IF v < 100 THEN "normal" ELSE "steep"

\* C22: each classifier treats its thresholds as inclusive lower bounds: VIX
\* 15/20/30/40 is normal/elevated/fear/crisis, HY spread 300/400/500/800 is
\* normal/wide/stressed/crisis, 2s10s 0/0.25/1.0 is flat/normal/steep, a
\* negative 2s10s is inverted, and a level just below a threshold is in the
\* regime beneath it.
C22_ThresholdsAreInclusiveLowerBounds ==
    mc.pc \in {"classified", "built", "upserted", "done"} =>
        LET k == mc.key_levels
            r == mc.regimes
        IN  /\ k.vix_level # Null => r.volatility_regime = RegimeOfVix(k.vix_level[1])
            /\ k.hy_spread # Null => r.credit_regime = RegimeOfHy(k.hy_spread[1])
            /\ k.spread_2s10s # Null => r.curve_regime = RegimeOfSpread(k.spread_2s10s[1])
            /\ k.vix_level = Some(1500) => r.volatility_regime = "normal"
            /\ k.vix_level = Some(1499) => r.volatility_regime = "calm"
            /\ k.vix_level = Some(2000) => r.volatility_regime = "elevated"
            /\ k.vix_level = Some(3000) => r.volatility_regime = "fear"
            /\ k.vix_level = Some(4000) => r.volatility_regime = "crisis"
            /\ k.vix_level = Some(3999) => r.volatility_regime = "fear"
            /\ k.hy_spread = Some(30000) => r.credit_regime = "normal"
            /\ k.hy_spread = Some(29999) => r.credit_regime = "tight"
            /\ k.hy_spread = Some(40000) => r.credit_regime = "wide"
            /\ k.hy_spread = Some(50000) => r.credit_regime = "stressed"
            /\ k.hy_spread = Some(80000) => r.credit_regime = "crisis"
            /\ k.spread_2s10s = Some(0) => r.curve_regime = "flat"
            /\ k.spread_2s10s = Some(-1) => r.curve_regime = "inverted"
            /\ k.spread_2s10s = Some(24) => r.curve_regime = "flat"
            /\ k.spread_2s10s = Some(25) => r.curve_regime = "normal"
            /\ k.spread_2s10s = Some(100) => r.curve_regime = "steep"

\* a snapshot with VIX 15, HY spread 300 and 2s10s 0 is classified
C22_Witness ==
    /\ mc.pc = "classified"
    /\ mc.key_levels.vix_level = Some(1500) /\ mc.regimes.volatility_regime = "normal"
    /\ mc.key_levels.hy_spread = Some(30000) /\ mc.regimes.credit_regime = "normal"
    /\ mc.key_levels.spread_2s10s = Some(0) /\ mc.regimes.curve_regime = "flat"

\* C29: the market-context job returns status "success" only if this run
\* stored a market_context row for the snapshot date; when the upsert fails
\* the status is "error".
C29_SuccessOnlyIfRowStored ==
    mc.pc = "done" =>
        /\ mc.status = "success" => \E r \in mc_table : r.context_date = SnapshotDate
        /\ mc.upserted = Some(FALSE) => mc.status = "error"

\* the upsert failed, no row is stored and the job has returned "success"
C29_Witness ==
    /\ mc.pc = "done" /\ mc.upserted = Some(FALSE) /\ mc_table = {}
    /\ mc.status = "success" /\ mc.record = Null


InitConviction ==
    /\ ConvictionInit /\ EventsIdle /\ SchedIdle /\ TablesIdle /\ IngestIdle /\ RssIdle /\ TransmissionIdle /\ CalendarIdle /\ LifeIdle /\ QuietIdle /\ CommIdle
    /\ FedIdle /\ DigestIdle /\ FetchIdle /\ PollIdle /\ ProcIdle /\ PassIdle /\ DiscIdle
    /\ ScoreIdle /\ MarketIdle
SpecConviction == InitConviction /\ [][ConvictionNext]_vars

\* C23: for every combination of inputs the conviction total lies in
\* [0, 100], and the level is HIGH iff total >= 70, MEDIUM iff
\* 50 <= total < 70, LOW iff 30 <= total < 50, INSUFFICIENT iff total < 30.
C23_TotalInRangeAndLevelAgrees ==
    conv.result # Null =>
        LET total == conv.result[1].total_score
            level == conv.result[1].level
        IN  /\ 0 <= total /\ total <= 100
            /\ level = "HIGH" <=> total >= 70
            /\ level = "MEDIUM" <=> (50 <= total /\ total < 70)
            /\ level = "LOW" <=> (30 <= total /\ total < 50)
            /\ level = "INSUFFICIENT" <=> total < 30

\* a thesis whose components sum to exactly 70 is HIGH, and one whose
\* components sum below zero is clamped to 0
C23_Witness ==
    /\ conv.result # Null
    /\ conv.result[1].total_score = 70 /\ conv.result[1].level = "HIGH"

C23_WitnessClamped ==
    /\ conv.result # Null
    /\ conv.result[1].unclamped < 0 /\ conv.result[1].total_score = 0


InitTransmission ==
    /\ TransmissionInit /\ EventsIdle /\ SchedIdle /\ TablesIdle /\ IngestIdle /\ RssIdle /\ CalendarIdle /\ LifeIdle /\ QuietIdle /\ CommIdle
    /\ FedIdle /\ DigestIdle /\ FetchIdle /\ PollIdle /\ ProcIdle /\ PassIdle /\ DiscIdle
    /\ ScoreIdle /\ MarketIdle /\ ConvictionIdle
SpecTransmission == InitTransmission /\ [][TransmissionNext]_vars

\* C24: normalising a crypto_transmission value is idempotent: for every
\* payload p, normalize(normalize(p)) equals normalize(p) in exists, path,
\* strength and relevant_assets.
C24_NormalizeIsIdempotent ==
    tx.twice # Null =>
        /\ tx.twice[1].exists = tx.once[1].exists
        /\ tx.twice[1].path = tx.once[1].path
        /\ tx.twice[1].strength = tx.once[1].strength
        /\ tx.twice[1].relevant_assets = tx.once[1].relevant_assets

\* a payload with aliased, padded and repeated assets, a padded path and an
\* aliased strength has been normalised twice
C24_Witness ==
    /\ tx.twice # Null
    /\ tx.payload.strength = PyStr(<<"HIGH">>) /\ tx.once[1].strength = <<"strong">>
    /\ tx.payload.path.text # tx.once[1].path
    /\ tx.once[1].relevant_assets = <<<<"BTC">>, <<"Doge">>, <<"doge">>>>


InitCalendar ==
    /\ CalendarInit /\ EventsIdle /\ SchedIdle /\ TablesIdle /\ IngestIdle /\ RssIdle /\ LifeIdle /\ QuietIdle /\ CommIdle
    /\ FedIdle /\ DigestIdle /\ FetchIdle /\ PollIdle /\ ProcIdle /\ PassIdle /\ DiscIdle
    /\ ScoreIdle /\ MarketIdle /\ ConvictionIdle /\ TransmissionIdle
SpecCalendar == InitCalendar /\ [][CalendarNext]_vars

\* the parsed events of the payload, in order, with lo <= event_date < hi
ParsedWithin(lo, hi) ==
    SelectSeq(ParseEntries(cal.adapter, cal.payload),
              LAMBDA e : lo <= e.event_date /\ e.event_date < hi)
\* 00:00 UTC of the day sync_calendar was called
TodayMidnight == cal.now - (cal.now % 24)
LiveFutureOnly == cal.adapter = "forex_factory" /\ cal.future_only /\ ~cal.data_file

\* C25: each calendar adapter returns exactly the parsed events whose
\* event_date lies in [start, end), start being 00:00 UTC today: an event at
\* start is returned, an event at end is not, none inside is omitted.
C25_AdaptersReturnExactlyTheWindow ==
    cal.pc = "fetched" =>
        /\ cal.window.start = TodayMidnight
        /\ cal.window.end = TodayMidnight + 24 * cal.days
        /\ cal.events = ParsedWithin(cal.window.start, cal.window.end)

\* C25 as the code has it: the local-JSON and release-dates adapters, and
\* the wire-service adapter reading a file or with future_only off, return
\* exactly the parsed events of [start, end); the wire-service adapter on its
\* live feed returns exactly those of [max(start, time of the fetch), end).
C25_WindowExceptLiveFeedDropsPast ==
    cal.pc = "fetched" =>
        /\ cal.window.start = TodayMidnight
        /\ cal.window.end = TodayMidnight + 24 * cal.days
        /\ cal.events = ParsedWithin(IF LiveFutureOnly THEN Max(cal.window.start, cal.fetch_now)
                                                       ELSE cal.window.start,
                                     cal.window.end)

\* the live wire-service adapter, called two hours into the day, has dropped
\* an event of 00:00 today and returned one of the last hour of the window,
\* leaving out nothing else
C25_Witness ==
    /\ cal.pc = "fetched" /\ LiveFutureOnly /\ cal.now = 50 /\ cal.days = 1
    /\ Len(cal.payload) = 2 /\ Len(ParseEntries(cal.adapter, cal.payload)) = 2
    /\ ParseEntries(cal.adapter, cal.payload)[1].event_date = 48
    /\ Len(cal.events) = 1 /\ cal.events[1].event_date = 71

\* the local-JSON adapter returns an event at start and drops one at end
C25_WitnessJson ==
    /\ cal.pc = "fetched" /\ cal.adapter = "json" /\ cal.days = 1
    /\ Len(cal.payload) = 2 /\ Len(ParseEntries(cal.adapter, cal.payload)) = 2
    /\ ParseEntries(cal.adapter, cal.payload)[1].event_date = 48
    /\ ParseEntries(cal.adapter, cal.payload)[2].event_date = 72
    /\ Len(cal.events) = 1 /\ cal.events[1].event_date = 48

(***************************************************************************)
(* The life of a stored macro event under ingest, scoring and analysis.    *)
(***************************************************************************)
InitLife ==
    /\ LifeInit /\ EventsIdle /\ SchedIdle /\ TablesIdle /\ IngestIdle /\ RssIdle /\ FedIdle /\ QuietIdle /\ CommIdle
    /\ DigestIdle /\ FetchIdle /\ PollIdle /\ ProcIdle /\ PassIdle /\ DiscIdle /\ ScoreIdle
    /\ MarketIdle /\ ConvictionIdle /\ TransmissionIdle /\ CalendarIdle
SpecLife == InitLife /\ [][LifeNext]_vars

IngestStep == life_log'.op = "ingest" /\ life_log'.ops = life_log.ops + 1

\* C26: re-ingesting a feed item whose (source, headline, published_at) is
\* already stored changes nothing of the stored event: every row stored before
\* an ingest transaction is stored after it with the same significance score,
\* priority flag, status and analysis fields, and the table never holds two
\* rows with one key, whatever scoring and analysis steps come in between.
C26_ReingestLeavesStoredEventAlone ==
    [][/\ IngestStep => \A r \in stored_events : r \in stored_events'
       /\ \A r1 \in stored_events' : \A r2 \in stored_events' :
              EventKey(r1) = EventKey(r2) => r1 = r2]_vars

\* an ingest transaction has just carried the key of an event that was already
\* scored as priority and analysed
C26_Witness ==
    /\ life_log.op = "ingest"
    /\ \E r \in stored_events :
          /\ EventKey(r) \in life_log.keys
          /\ r.significance_score # Null
          /\ r.priority_flag
          /\ ~AnalysisIsNull(r)
          /\ r.status = "new"

\* run p takes its turn for an event in this step
Turn(p, k) ==
    /\ analysis_run[p].pc = "running"
    /\ k \in analysis_run[p].events
    /\ analysis_run'[p].pc = "running"
    /\ analysis_run'[p].events = analysis_run[p].events \ {k}

KeepsAnalysis(r) ==
    \E r2 \in stored_events' :
        EventKey(r2) = EventKey(r) /\ \A c \in AnalysisColumns : r2[c] = r[c]

CountsSkipped(p) ==
    /\ analysis_run'[p].skipped = analysis_run[p].skipped + 1
    /\ analysis_run'[p].analyzed = analysis_run[p].analyzed

\* C30 as stated: without --overwrite, once any analysis field of an event is
\* set no step changes the event's analysis fields but the write of a run with
\* --overwrite, and every run without --overwrite that takes its turn for the
\* event counts it as skipped.
C30_SetOnceAndEveryLaterRunSkips ==
    [][\A r \in stored_events : ~AnalysisIsNull(r) =>
          /\ KeepsAnalysis(r)
                \/ (life_log'.op = "analyze" /\ analysis_run[life_log'.run].overwrite)
          /\ \A p \in AnalysisRuns :
                (Turn(p, EventKey(r)) /\ ~analysis_run[p].overwrite) => CountsSkipped(p)]_vars

\* C30, amended: the same, except that a --dry-run run, which writes nothing,
\* counts every event it analyses as analyzed, not skipped.
C30_SetOnceAndLaterWritingRunSkips ==
    [][\A r \in stored_events : ~AnalysisIsNull(r) =>
          /\ KeepsAnalysis(r)
                \/ (life_log'.op = "analyze" /\ analysis_run[life_log'.run].overwrite)
          /\ \A p \in AnalysisRuns :
                (Turn(p, EventKey(r)) /\ ~analysis_run[p].overwrite) =>
                    IF analysis_run[p].dry_run
                    THEN analysis_run'[p].skipped = analysis_run[p].skipped
                    ELSE CountsSkipped(p)]_vars

\* two concurrent runs without --overwrite or --dry-run fetched the same
\* event: one wrote its analysis, the other counted it as skipped
C30_Witness ==
    \E p \in AnalysisRuns : \E q \in AnalysisRuns \ {p} :
        /\ analysis_run[p].pc = "running" /\ analysis_run[q].pc = "running"
        /\ ~analysis_run[p].overwrite /\ ~analysis_run[q].overwrite
        /\ ~analysis_run[p].dry_run /\ ~analysis_run[q].dry_run
        /\ analysis_run[p].analyzed = 1 /\ analysis_run[q].skipped = 1
        /\ life_log.op = "analyze_nothing" /\ life_log.run = q
        /\ \E r \in stored_events : EventKey(r) \in life_log.keys /\ ~AnalysisIsNull(r)

\* a --dry-run run without --overwrite has analysed an event whose analysis
\* fields were set, and counted it as analyzed
C30_WitnessDryRun ==
    \E p \in AnalysisRuns :
        /\ analysis_run[p].pc = "running"
        /\ analysis_run[p].dry_run /\ ~analysis_run[p].overwrite
        /\ analysis_run[p].analyzed = 1 /\ analysis_run[p].skipped = 0
        /\ life_log.op = "analyze_nothing" /\ life_log.run = p
        /\ \E r \in stored_events : EventKey(r) \in life_log.keys /\ ~AnalysisIsNull(r)

(***************************************************************************)
(* The poll loop's failure count against what its cycles really fetched.   *)
(***************************************************************************)
InitQuiet ==
    /\ QuietInit /\ EventsIdle /\ SchedIdle /\ TablesIdle /\ IngestIdle /\ RssIdle /\ FedIdle /\ CommIdle
    /\ DigestIdle /\ FetchIdle /\ PollIdle /\ ProcIdle /\ PassIdle /\ DiscIdle /\ ScoreIdle
    /\ MarketIdle /\ ConvictionIdle /\ TransmissionIdle /\ CalendarIdle /\ LifeIdle
SpecQuiet == InitQuiet /\ [][QuietNext]_vars

\* the last cycle fetched and parsed every feed, found items in each, and
\* every item was already stored
QuietCycle ==
    /\ quiet_poll.cycles > 0
    /\ \A s \in QuietFeeds :
          /\ quiet_poll.answers[s].fetched
          /\ quiet_poll.answers[s].items # {}
          /\ \A i \in quiet_poll.answers[s].items : <<s, i>> \in quiet_poll.duplicates

\* C27: a cycle in which every feed was fetched and parsed successfully but
\* inserted no new events, all items being already stored, does not count as a
\* failure and is followed by no backoff sleep.
C27_QuietCycleIsNoFailure ==
    QuietCycle => quiet_poll.consecutive_failures = 0 /\ quiet_poll.slept = Null

\* after a first cycle that stored the items, a cycle with the same items
\* was counted as a failure and the loop slept its backoff
C27_Witness ==
    /\ QuietCycle
    /\ quiet_poll.cycles = 2
    /\ quiet_poll.consecutive_failures = 1
    /\ quiet_poll.slept # Null

(***************************************************************************)
(* Two concurrent central-bank ingest runs.                                *)
(***************************************************************************)
InitComm ==
    /\ CommInit /\ EventsIdle /\ SchedIdle /\ TablesIdle /\ IngestIdle /\ RssIdle /\ FedIdle
    /\ DigestIdle /\ FetchIdle /\ PollIdle /\ ProcIdle /\ PassIdle /\ DiscIdle /\ ScoreIdle
    /\ MarketIdle /\ ConvictionIdle /\ TransmissionIdle /\ CalendarIdle /\ LifeIdle /\ QuietIdle
SpecComm == InitComm /\ [][CommNext]_vars

\* C28: after any interleaving of two concurrent central-bank ingest runs
\* over the same statements, the store holds at most one comm per (bank,
\* comm_type, published_at); bank and comm_type are the ingestor's constants.
C28_AtMostOneCommPerKey ==
    \A r1 \in comms_store : \A r2 \in comms_store :
        r1.published_at = r2.published_at => r1 = r2

\* both runs have committed the same statement: the store holds it twice,
\* once from each process
C28_Witness ==
    /\ \A p \in CommRuns : comm_run[p].pc = "idle" /\ comm_run[p].inserted > 0
    /\ \E r1 \in comms_store : \E r2 \in comms_store :
          /\ r1.id[1] = "scheduler" /\ r2.id[1] = "cli"
          /\ r1.published_at = r2.published_at
          /\ r1.full_text = r2.full_text

=============================================================================
